---- MODULE Spec2Model ----
(***************************************************************************)
(* Verification model of the traffic-manager-api sync engine:              *)
(*   - the cron/manual sync jobs (scheduler package),                      *)
(*   - the Meta token manager and the Meta client retry (metaclient),      *)
(*   - the cache-fill of the insighting service.                           *)
(* Three specifications share one variable list: Spec (sync jobs),         *)
(* TokenSpec (token manager) and CacheSpec (cache-fill).                   *)
(***************************************************************************)
EXTENDS Integers, Sequences, FiniteSets, TLC

(***************************************************************************)
(* Bounds                                                                  *)
(***************************************************************************)
\* number of trigger invocations (cron firings and manual calls) of one job
MaxThreads == 3

Threads == 1..MaxThreads

\* number of concurrent callers of the token manager (besides the refresh loop)
MaxProcs == 2
\* number of times the token clock advances
MaxAdvances == 1
\* data requests one top-level Meta API call may issue before the model stops it
MaxDataRequests == 3
\* Meta API calls made in one behaviour
MaxApiCalls == 1

\* calendar days 0..MaxDay may be requested by a cache-fill call
MaxDay == 1
\* cache-fill calls made in one behaviour
MaxCalls == 3

\* clock advances of the refresh loop taken alone
MaxLoopAdvances == 3

\* active accounts a sync run iterates over
MaxSyncAccounts == 3
\* config.LookbackDays: dates each account worker processes
LookbackDays == 2
\* config.MaxConcurrentJobs: size of the semaphore channel
MaxConcurrentJobs == 2
\* sync runs started in one behaviour
MaxSyncRuns == 1

\* GetStatus calls made in one behaviour
MaxStatusCalls == 1
\* per-day records in a list given to combineAdMetrics
MaxCombineRecords == 2
\* missing dates of one cache-fill call, more than the semaphore has slots
MaxMissingDates == 7

\* config.MonthLookBack: months the monthly job goes back
MaxMonthLookBack == 3
\* midnights that pass while a date list is built and processed
MaxMidnights == 1
\* times one GetAdAccountInsightsByID call is answered "token expired"
MaxRequestRetries == 3

\* accounts known to the ranking job
MaxAccounts == 2
\* ranking runs made in one behaviour
MaxRuns == 2
\* midnights that pass between ranking runs
MaxRankDays == 2

Callers == 1..MaxProcs
\* process 0 is the goroutine running StartAutoRefresh
AllProcs == 0..MaxProcs

(***************************************************************************)
(* Sync jobs: state                                                        *)
(***************************************************************************)
\* the four job services; each owns its own SyncRunState
Jobs == {"meta", "ssotica", "monthly", "ranking"}
\* jobs whose run releases syncMutex right after setting the flag
FlagJobs == {"meta", "ssotica", "monthly"}

VARIABLES
    job,                  \* which service instance this behaviour is about
    syncRunning,          \* s.syncRunning
    syncMutex,            \* holder of s.syncMutex (0 when unlocked)
    lastSyncStartedAt,    \* s.lastSyncStartedAt (0 = zero time)
    lastSyncCompletedAt,  \* s.lastSyncCompletedAt (0 = zero time)
    syncNow,              \* time.Now() of the sync jobs, a logical clock
    tpc,                  \* position of each trigger invocation
    tkind,                \* "none" | "cron" | "manual"
    arrival,              \* history: "none", or whether a run was active when
                          \* the invocation first called syncMutex.Lock()
    startedPass,          \* history: this invocation started a pass
    passCount,            \* history: number of passes started
    status                \* per invocation: the map GetStatus returned

\* ---- token manager (metaclient.TokenManager, cfg.Meta) ----
VARIABLES
    accessToken,          \* cfg.Meta.AccessToken ("" when not configured)
    longLivedToken,       \* cfg.Meta.LongLivedToken
    tokenExpiresAt,       \* cfg.Meta.TokenExpiresAt, seconds (0 = zero time)
    tokenMutex,           \* holder of TokenRefreshMutex (-1 when unlocked)
    tokNow,               \* time.Now() of the token manager, seconds
    advances,             \* number of clock advances so far
    ppc,                  \* position of each process
    op,                   \* "none" | "refresh" | "ensure" | "api" | "loop"
    stack,                \* return positions of the calls in progress
    rres,                 \* error result of the last call that returned
    exch,                 \* history: exchanges sent in the current token call
    dataReqs,             \* history: data requests sent during the call
    hRefreshes,           \* history: refreshes triggered by HandleResponse
    evSeen,               \* history: what EnsureValidToken read at its test
    tickerDue,            \* next tick of the loop's ticker, seconds
    tickerInterval,       \* current period of the ticker, seconds
    stopRefresh,          \* the stopRefresh channel is closed
    secretStore,          \* value last pushed with AddOrUpdateSecret
    reauthSeen,           \* history: a refresh got "session invalidated"
    inBatch,              \* history: RefreshToken calls started before any returned
    refreshReturned,      \* history: some RefreshToken call has returned
    initiated             \* history: an InitiateToken call has returned nil

tokState == <<accessToken, longLivedToken, tokenExpiresAt>>
tokClock == <<tokNow, advances>>
tokLoop == <<tickerDue, tickerInterval, stopRefresh>>
tokHist == <<exch, dataReqs, hRefreshes, evSeen, reauthSeen, inBatch>>
tvars == <<tokState, tokenMutex, tokClock, ppc, op, stack, rres, tokLoop,
           secretStore, tokHist, refreshReturned, initiated>>

\* --- cache-fill (getAdMetricsWithCache / getSalesMetricsWithCache) ---------
VARIABLES
    store0,               \* rows of the insights table before the first call
    store,                \* rows of the insights table: day -> record or "none"
    clockDay,             \* the calendar day of time.Now()
    callNo,               \* number of cache-fill calls started
    cpc,                  \* "idle" | "query" | "wait": position of the call
    cStart,               \* filters.StartDate of the call
    cEnd,                 \* filters.EndDate of the call
    callDay,              \* history: the calendar day when the call started
    cStore,               \* history: the rows when the call started
    dbOk,                 \* GetByDateRange returned no error
    task,                 \* per date: position of its fetch goroutine
    fetches,              \* history: external fetches sent per date
    saves,                \* history: per date "none" | "ok" | "err" | "skip"
    adInsights,           \* per date: the records appended to the result list
    hist                  \* history: one record per call that returned

cvars == <<store0, store, clockDay, callNo, cpc, cStart, cEnd, callDay, cStore,
           dbOk, task, fetches, saves, adInsights, hist>>

\* --- ranking (processTopRankingAccountsWithDate) ---------------------------
VARIABLES
    rankStore,            \* store_ranking: <<account, month>> -> row or NoRow
    rankToday,            \* the calendar date of time.Now()
    rankAdv,              \* number of midnights passed
    runNo,                \* number of ranking runs started
    rpc,                  \* "idle" | "running"
    processingDate,       \* processingDate of the run
    accounts,             \* the account list of the run, in input order
    lookup,               \* per account: state of its GetByAccountID goroutine
    fetch,                \* per account: state of its getSalesByAccount goroutine
    rankingBeforeUpdate,  \* channel: rows found, in send order
    rankings,             \* channel: new items, in send order
    lookupMonths,         \* history: months used as lookup key in the run
    fetchRanges,          \* history: <<start, end>> ranges fetched in the run
    fetched,              \* history: revenue fetched per account in the run
    rhist                 \* history: one record per run that returned

rvars == <<rankStore, rankToday, rankAdv, runNo, rpc, processingDate, accounts,
           lookup, fetch, rankingBeforeUpdate, rankings, lookupMonths,
           fetchRanges, fetched, rhist>>

\* --- account workers of a sync run (processMetaInsightsForDates) ----------
VARIABLES
    ctxDone,              \* the process context is cancelled
    schedulerOn,          \* the job's gocron scheduler is running
    cfgLookback,          \* config.LookbackDays
    cfgMaxJobs,           \* config.MaxConcurrentJobs
    eligible,             \* the active accounts that have an external id
    mpc,                  \* "idle" | "loop" | "wait" | "crashed": the run
    nextAccount,          \* index of the account the run's loop is at
    semaphore,            \* slots of the semaphore channel in use
    dates,                \* the date list of the run, shared by its workers
    wstate,               \* per account: position of its worker goroutine
    wsort,                \* per account: indices and temporary of its sort
    wdate,                \* per account: index of the date its worker is at
    wfetched,             \* history: per account, the fetches of this run
    runsStarted,          \* history: number of runs started
    lateWorkers,          \* history: workers started after the cancellation
    lateFetches           \* history: <<account, date>> fetched after it

wvars == <<ctxDone, schedulerOn, cfgLookback, cfgMaxJobs, eligible, mpc,
           nextAccount, semaphore, dates, wstate, wsort, wdate, wfetched,
           runsStarted, lateWorkers, lateFetches>>

\* --- aggregation of per-day records (combineAdMetrics) ---------------------
VARIABLES
    cmbIn,                \* adInsights: the list of per-day records
    cmbPc,                \* "idle" | "input" | "combined" | "done" | "panicked"
    cmbOut,               \* the aggregate of the list as given
    cmbOutP,              \* the aggregate of a permutation of the list
    cmbName               \* combined.Name of the aggregate of the list as given

mvars == <<cmbIn, cmbPc, cmbOut, cmbOutP, cmbName>>

\* --- cache-fill with many missing dates (the goroutines of step 2 alone) ---
VARIABLES
    poolMissing,          \* len(missingAdDates)
    poolNext,             \* index of the date the launching loop is at
    poolPc,               \* "idle" | "launching" | "wait" | "returned"
    poolTask,             \* per missing date: position of its goroutine
    poolLaunched,         \* history: goroutines started per date
    poolFetches,          \* history: external fetches sent per date
    poolPeak              \* history: most semaphore slots held at one time

pvars == <<poolMissing, poolNext, poolPc, poolTask, poolLaunched, poolFetches, poolPeak>>

\* --- date lists of the sync jobs (getDatesToProcess, syncMonthlyInsights) ---
VARIABLES
    calToday,             \* the calendar date of time.Now()
    calAdv,               \* number of midnights passed
    calKind,              \* "daily" | "monthly"
    calN,                 \* config.LookbackDays or config.MonthLookBack
    calPc,                \* "idle" | "building" | "built"
    calStart,             \* history: the calendar date when the run started
    calI,                 \* loop variable i
    calDates,             \* daily: the list dates
    calPeriods,           \* monthly: history of the periods processed
    calSaved              \* daily: dates of the records upserted by the run

dvars == <<calToday, calAdv, calKind, calN, calPc, calStart, calI, calDates,
           calPeriods, calSaved>>

\* --- CalculateTokenExpiration taken alone ---------------------------------
VARIABLES
    expIn,                \* expiresIn of the call
    expPc,                \* "idle" | "returned"
    expOut                \* the time returned

evars == <<expIn, expPc, expOut>>

\* --- the request of GetAdAccountInsightsByID --------------------------------
VARIABLES
    reqFilter,            \* filters: <<StartDate, EndDate>>
    reqParams,            \* params (*url.Values): key -> list of values
    reqToken,             \* index in ApiTokens of cfg.Meta.AccessToken
    reqPc,                \* "idle" | "ensure" | "sent" | "done" | "failed"
    reqSent,              \* history: the requests sent by the call
    reqExpired            \* history: tokens the API reported as expired

qvars == <<reqFilter, reqParams, reqToken, reqPc, reqSent, reqExpired>>

\* the groups of the models of single functions
xvars == <<dvars, evars, qvars>>

svars == <<job, syncRunning, syncMutex, lastSyncStartedAt, lastSyncCompletedAt,
           syncNow, tpc, tkind, arrival, startedPass, passCount, status>>

vars == <<svars, tvars, cvars, rvars, wvars, mvars, pvars, xvars>>

\* no GetStatus call has returned to the invocation
NoStatus == [keys |-> {}, running |-> "absent", lastStart |-> 0, lastComplete |-> 0,
             flag |-> FALSE]

\* positions of an invocation that is inside a run (flag set, not yet reset)
PassPcs == {"started", "accounts", "processing", "completing", "deferred"}

\* a run of the job is executing its pass
RunActive == \E t \in Threads : tpc[t] \in PassPcs

SyncInit ==
    /\ job \in Jobs
    /\ syncRunning = FALSE
    /\ syncMutex = 0
    /\ lastSyncStartedAt = 0
    /\ lastSyncCompletedAt = 0
    /\ syncNow = 1
    /\ tpc = [t \in Threads |-> "idle"]
    /\ tkind = [t \in Threads |-> "none"]
    /\ arrival = [t \in Threads |-> "none"]
    /\ startedPass = [t \in Threads |-> FALSE]
    /\ passCount = 0
    /\ status = [t \in Threads |-> NoStatus]

(***************************************************************************)
(* Sync jobs: operations                                                   *)
(***************************************************************************)
\* gocron fires the job function: syncAll...() / UpdateTopRankingAccounts()
CronFire(t) ==
    /\ tpc[t] = "idle"
    /\ tpc' = [tpc EXCEPT ![t] = "sync_entry"]
    /\ tkind' = [tkind EXCEPT ![t] = "cron"]
    /\ UNCHANGED <<job, syncRunning, syncMutex, lastSyncStartedAt,
                   lastSyncCompletedAt, syncNow, arrival, startedPass, passCount>>
    /\ UNCHANGED <<status, tvars, cvars, rvars, wvars, mvars, pvars, xvars>>

\* a caller enters TriggerManualSync()
ManualCall(t) ==
    /\ tpc[t] = "idle"
    /\ tpc' = [tpc EXCEPT ![t] = "manual_entry"]
    /\ tkind' = [tkind EXCEPT ![t] = "manual"]
    /\ UNCHANGED <<job, syncRunning, syncMutex, lastSyncStartedAt,
                   lastSyncCompletedAt, syncNow, arrival, startedPass, passCount>>
    /\ UNCHANGED <<status, tvars, cvars, rvars, wvars, mvars, pvars, xvars>>

\* positions of an invocation about to call, or blocked in, syncMutex.Lock()
EntryPcs == {"manual_entry", "sync_entry"}
WaitPcs == {"manual_wait", "sync_wait"}

\* the history of the invocation's first Lock() call
ArrivalAt(t) ==
    IF arrival[t] = "none"
        THEN [arrival EXCEPT ![t] = IF RunActive THEN "active" ELSE "idle"]
        ELSE arrival

\* syncMutex.Lock() called while another goroutine holds the mutex: the caller
\* blocks.  Only the ranking run holds syncMutex across blocking calls.
SyncLockBlocked(t) ==
    /\ tpc[t] \in EntryPcs
    /\ syncMutex # 0
    /\ tpc' = [tpc EXCEPT ![t] = IF tpc[t] = "manual_entry" THEN "manual_wait"
                                                            ELSE "sync_wait"]
    /\ arrival' = ArrivalAt(t)
    /\ UNCHANGED <<job, syncRunning, syncMutex, lastSyncStartedAt, lastSyncCompletedAt,
                   syncNow, tkind, startedPass, passCount>>
    /\ UNCHANGED <<status, tvars, cvars, rvars, wvars, mvars, pvars, xvars>>

\* the `if s.syncRunning` test both entry points make under syncMutex
SyncAlreadyRunningNoCheck == FALSE

SyncAlreadyRunning == syncRunning

\* TriggerManualSync: Lock; if syncRunning { Unlock; return }; Unlock; go sync()
\* Lock blocks while another goroutine holds syncMutex.
TriggerManualSync(t) ==
    /\ tpc[t] \in {"manual_entry", "manual_wait"}
    /\ syncMutex = 0
    /\ tpc' = [tpc EXCEPT ![t] = IF SyncAlreadyRunning THEN "returned" ELSE "sync_entry"]
    /\ arrival' = ArrivalAt(t)
    /\ UNCHANGED <<job, syncRunning, syncMutex, lastSyncStartedAt, lastSyncCompletedAt,
                   syncNow, tkind, startedPass, passCount>>
    /\ UNCHANGED <<status, tvars, cvars, rvars, wvars, mvars, pvars, xvars>>

\* a queueing variant of the entry: when the flag is set, unlock and try again
\* later instead of returning
SyncEnterQueued(t) ==
    /\ job \in FlagJobs
    /\ tpc[t] = "sync_entry"
    /\ syncMutex = 0
    /\ IF syncRunning
          THEN UNCHANGED <<tpc, syncRunning, startedPass, passCount>>
          ELSE /\ syncRunning' = TRUE
               /\ tpc' = [tpc EXCEPT ![t] = "started"]
               /\ startedPass' = [startedPass EXCEPT ![t] = TRUE]
               /\ passCount' = passCount + 1
    /\ arrival' = ArrivalAt(t)
    /\ UNCHANGED <<job, syncMutex, lastSyncStartedAt, lastSyncCompletedAt,
                   syncNow, tkind>>
    /\ UNCHANGED <<status, tvars, cvars, rvars, wvars, mvars, pvars, xvars>>

\* syncAll...: Lock; if syncRunning { Unlock; return }; syncRunning = true; Unlock
SyncEnter(t) ==
    /\ job \in FlagJobs
    /\ tpc[t] = "sync_entry"
    /\ syncMutex = 0
    /\ IF SyncAlreadyRunning
          THEN /\ tpc' = [tpc EXCEPT ![t] = "returned"]
               /\ UNCHANGED <<syncRunning, startedPass, passCount>>
          ELSE /\ syncRunning' = TRUE
               /\ tpc' = [tpc EXCEPT ![t] = "started"]
               /\ startedPass' = [startedPass EXCEPT ![t] = TRUE]
               /\ passCount' = passCount + 1
    /\ arrival' = ArrivalAt(t)
    /\ UNCHANGED <<job, syncMutex, lastSyncStartedAt, lastSyncCompletedAt,
                   syncNow, tkind>>
    /\ UNCHANGED <<status, tvars, cvars, rvars, wvars, mvars, pvars, xvars>>

\* startTime := time.Now(); s.lastSyncStartedAt = startTime (outside the mutex)
SyncRecordStart(t) ==
    /\ job \in FlagJobs
    /\ tpc[t] = "started"
    /\ lastSyncStartedAt' = syncNow
    /\ syncNow' = syncNow + 1
    /\ tpc' = [tpc EXCEPT ![t] = "accounts"]
    /\ UNCHANGED <<job, syncRunning, syncMutex, lastSyncCompletedAt,
                   tkind, arrival, startedPass, passCount>>
    /\ UNCHANGED <<status, tvars, cvars, rvars, wvars, mvars, pvars, xvars>>

\* getActiveAccounts(): an error or an empty list returns early (the deferred
\* reset still runs); otherwise the accounts are processed
SyncGetAccounts(t) ==
    /\ job \in FlagJobs
    /\ tpc[t] = "accounts"
    /\ \E outcome \in {"error", "empty", "ok"} :
          tpc' = [tpc EXCEPT ![t] = IF outcome = "ok" THEN "processing" ELSE "deferred"]
    /\ UNCHANGED <<job, syncRunning, syncMutex, lastSyncStartedAt, lastSyncCompletedAt,
                   syncNow, tkind, arrival, startedPass, passCount>>
    /\ UNCHANGED <<status, tvars, cvars, rvars, wvars, mvars, pvars, xvars>>

\* process...ForDates / processMonthlyInsights: the pass over the account
\* list, returning after wg.Wait()
SyncProcess(t) ==
    /\ job \in FlagJobs
    /\ tpc[t] = "processing"
    /\ tpc' = [tpc EXCEPT ![t] = "completing"]
    /\ UNCHANGED <<job, syncRunning, syncMutex, lastSyncStartedAt, lastSyncCompletedAt,
                   syncNow, tkind, arrival, startedPass, passCount>>
    /\ UNCHANGED <<status, tvars, cvars, rvars, wvars, mvars, pvars, xvars>>

\* s.lastSyncCompletedAt = time.Now()
SyncRecordComplete(t) ==
    /\ job \in FlagJobs
    /\ tpc[t] = "completing"
    /\ lastSyncCompletedAt' = syncNow
    /\ syncNow' = syncNow + 1
    /\ tpc' = [tpc EXCEPT ![t] = "deferred"]
    /\ UNCHANGED <<job, syncRunning, syncMutex, lastSyncStartedAt,
                   tkind, arrival, startedPass, passCount>>
    /\ UNCHANGED <<status, tvars, cvars, rvars, wvars, mvars, pvars, xvars>>

\* defer func() { Lock; s.syncRunning = false; Unlock }()
SyncDeferred(t) ==
    /\ job \in FlagJobs
    /\ tpc[t] = "deferred"
    /\ syncMutex = 0
    /\ syncRunning' = FALSE
    /\ tpc' = [tpc EXCEPT ![t] = "returned"]
    /\ UNCHANGED <<job, syncMutex, lastSyncStartedAt, lastSyncCompletedAt,
                   syncNow, tkind, arrival, startedPass, passCount>>
    /\ UNCHANGED <<status, tvars, cvars, rvars, wvars, mvars, pvars, xvars>>

\* UpdateTopRankingAccounts: Lock; defer Unlock; if syncRunning { return nil };
\* syncRunning = true; lastSyncStartedAt = time.Now().  The mutex stays held.
RankingEnter(t) ==
    /\ job = "ranking"
    /\ tpc[t] \in {"sync_entry", "sync_wait"}
    /\ syncMutex = 0
    /\ IF SyncAlreadyRunning
          THEN /\ tpc' = [tpc EXCEPT ![t] = "returned"]
               /\ UNCHANGED <<syncRunning, syncMutex, lastSyncStartedAt, syncNow,
                              startedPass, passCount>>
          ELSE /\ syncMutex' = t
               /\ syncRunning' = TRUE
               /\ lastSyncStartedAt' = syncNow
               /\ syncNow' = syncNow + 1
               /\ tpc' = [tpc EXCEPT ![t] = "accounts"]
               /\ startedPass' = [startedPass EXCEPT ![t] = TRUE]
               /\ passCount' = passCount + 1
    /\ arrival' = ArrivalAt(t)
    /\ UNCHANGED <<job, lastSyncCompletedAt, tkind>>
    /\ UNCHANGED <<status, tvars, cvars, rvars, wvars, mvars, pvars, xvars>>

\* getActiveAccounts(): an error returns it; otherwise processTopRankingAccounts
RankingGetAccounts(t) ==
    /\ job = "ranking"
    /\ tpc[t] = "accounts"
    /\ \E outcome \in {"error", "ok"} :
          tpc' = [tpc EXCEPT ![t] = IF outcome = "ok" THEN "processing" ELSE "deferred"]
    /\ UNCHANGED <<job, syncRunning, syncMutex, lastSyncStartedAt, lastSyncCompletedAt,
                   syncNow, tkind, arrival, startedPass, passCount>>
    /\ UNCHANGED <<status, tvars, cvars, rvars, wvars, mvars, pvars, xvars>>

\* s.processTopRankingAccounts(activeAccounts)
RankingProcess(t) ==
    /\ job = "ranking"
    /\ tpc[t] = "processing"
    /\ tpc' = [tpc EXCEPT ![t] = "deferred"]
    /\ UNCHANGED <<job, syncRunning, syncMutex, lastSyncStartedAt, lastSyncCompletedAt,
                   syncNow, tkind, arrival, startedPass, passCount>>
    /\ UNCHANGED <<status, tvars, cvars, rvars, wvars, mvars, pvars, xvars>>

\* the deferred calls in LIFO order: syncRunning = false and
\* lastSyncCompletedAt = time.Now(), then syncMutex.Unlock()
RankingDeferred(t) ==
    /\ job = "ranking"
    /\ tpc[t] = "deferred"
    /\ syncMutex = t
    /\ syncRunning' = FALSE
    /\ lastSyncCompletedAt' = syncNow
    /\ syncNow' = syncNow + 1
    /\ syncMutex' = 0
    /\ tpc' = [tpc EXCEPT ![t] = "returned"]
    /\ UNCHANGED <<job, lastSyncStartedAt, tkind, arrival, startedPass, passCount>>
    /\ UNCHANGED <<status, tvars, cvars, rvars, wvars, mvars, pvars, xvars>>

(***************************************************************************)

\* keys of the map GetStatus returns, per service
StatusKeys(j) ==
    CASE j \in {"meta", "ssotica"} ->
            {"sync_enabled", "sync_cron", "sync_lookback_days", "sync_max_concurrent",
             "sync_request_delay_s", "retention_policy",
             "last_sync_started_at", "last_sync_completed_at"}
      [] j = "monthly" ->
            {"sync_running", "sync_cron", "sync_enabled",
             "last_sync_started_at", "last_sync_completed_at"}
      [] OTHER ->
            {"sync_enabled", "sync_cron",
             "last_sync_started_at", "last_sync_completed_at"}

\* only the monthly service's GetStatus takes syncMutex
StatusLocks(j) == j = "monthly"

\* a caller enters GetStatus()
StatusCall(t) ==
    /\ tpc[t] = "idle"
    /\ Cardinality({u \in Threads : tkind[u] = "status"}) < MaxStatusCalls
    /\ tpc' = [tpc EXCEPT ![t] = "status_entry"]
    /\ tkind' = [tkind EXCEPT ![t] = "status"]
    /\ UNCHANGED <<job, syncRunning, syncMutex, lastSyncStartedAt,
                   lastSyncCompletedAt, syncNow, arrival, startedPass, passCount>>
    /\ UNCHANGED <<status, tvars, cvars, rvars, wvars, mvars, pvars, xvars>>

\* GetStatus: builds the map from the config and the fields of the service
GetStatus(t) ==
    /\ tpc[t] = "status_entry"
    /\ StatusLocks(job) => syncMutex = 0
    /\ status' = [status EXCEPT ![t] =
                    [keys |-> StatusKeys(job),
                     running |-> IF "sync_running" \in StatusKeys(job)
                                    THEN IF syncRunning THEN "true" ELSE "false"
                                    ELSE "absent",
                     lastStart |-> lastSyncStartedAt,
                     lastComplete |-> lastSyncCompletedAt,
                     flag |-> syncRunning]]
    /\ tpc' = [tpc EXCEPT ![t] = "returned"]
    /\ UNCHANGED <<job, syncRunning, syncMutex, lastSyncStartedAt, lastSyncCompletedAt,
                   syncNow, tkind, arrival, startedPass, passCount>>
    /\ UNCHANGED <<tvars, cvars, rvars, wvars, mvars, pvars, xvars>>

\* fields of SyncRunState the next step of invocation t writes, and whether
\* the step runs with syncMutex held
SyncWrites(t) ==
    IF tkind[t] = "status" THEN {}
    ELSE CASE tpc[t] \in {"sync_entry", "sync_wait"} ->
                  IF job = "ranking" THEN {"syncRunning", "lastSyncStartedAt"}
                                     ELSE {"syncRunning"}
           [] tpc[t] = "started" -> {"lastSyncStartedAt"}
           [] tpc[t] = "completing" -> {"lastSyncCompletedAt"}
           [] tpc[t] = "deferred" ->
                  IF job = "ranking" THEN {"syncRunning", "lastSyncCompletedAt"}
                                     ELSE {"syncRunning"}
           [] OTHER -> {}

\* fields of SyncRunState the next step of invocation t reads
SyncReads(t) ==
    CASE tpc[t] \in {"manual_entry", "manual_wait", "sync_entry", "sync_wait"} ->
              {"syncRunning"}
      [] tpc[t] = "status_entry" ->
              IF job = "monthly"
                 THEN {"syncRunning", "lastSyncStartedAt", "lastSyncCompletedAt"}
                 ELSE {"lastSyncStartedAt", "lastSyncCompletedAt"}
      [] OTHER -> {}

\* the next step of invocation t runs between syncMutex.Lock() and Unlock()
SyncStepLocked(t) ==
    \/ tpc[t] \in {"manual_entry", "manual_wait", "sync_entry", "sync_wait"}
    \/ tpc[t] = "deferred"
    \/ tpc[t] = "status_entry" /\ StatusLocks(job)

\* two invocations whose next steps access the same field, one of them
\* writing it, at least one of them without the mutex
SyncRace ==
    \E t, u \in Threads :
        /\ t # u
        /\ (SyncWrites(t) \cap (SyncWrites(u) \cup SyncReads(u))) # {}
        /\ ~(SyncStepLocked(t) /\ SyncStepLocked(u))

\* cfg.Meta fields the next step of process p writes (under TokenRefreshMutex)
TokenWrites(p) ==
    IF ppc[p] \in {"rf_wait", "it_wait"}
        THEN {"AccessToken", "LongLivedToken", "TokenExpiresAt"} ELSE {}

\* cfg.Meta fields the next step of process p reads without the mutex:
\* EnsureValidToken's tests and the request built with cfg.Meta.AccessToken
TokenUnlockedReads(p) ==
    CASE ppc[p] = "ev_check" -> {"AccessToken", "TokenExpiresAt"}
      [] ppc[p] = "api_request" -> {"AccessToken"}
      [] OTHER -> {}

\* a write of a token field while another process reads it without the mutex
TokenRace ==
    \E p, q \in AllProcs :
        /\ p # q
        /\ (TokenWrites(p) \cap TokenUnlockedReads(q)) # {}


(* Sync jobs: properties                                                   *)
(***************************************************************************)
\* C1: for each sync job, under any interleaving of cron triggers and
\* TriggerManualSync calls, at most one run of the job is executing its pass
\* over the account list at any time.
C1_AtMostOneActiveRun ==
    Cardinality({t \in Threads : tpc[t] \in PassPcs}) <= 1

\* a run is in its pass while two other invocations (one manual, one cron)
\* are about to test the flag
C1_Witness ==
    \E t, u, v \in Threads :
        /\ tpc[t] = "processing"
        /\ tpc[u] \in {"sync_entry", "sync_wait"} /\ tkind[u] = "manual"
        /\ tpc[v] \in {"sync_entry", "sync_wait"} /\ tkind[v] = "cron"

\* C2: for the daily ad, daily sales and monthly jobs, a cron or manual trigger
\* that arrives while a run is active never starts a pass, neither at once nor
\* after the active run ends; the passes started are at most the triggers that
\* arrived while no run was active (k triggers during one run: one pass).
C2_TriggerWhileRunningDropped ==
    job \in FlagJobs =>
        /\ \A t \in Threads : arrival[t] = "active" => ~startedPass[t]
        /\ passCount <= Cardinality({t \in Threads : arrival[t] = "idle"})

\* one run has come and gone; a manual and a cron trigger that arrived during
\* it have both returned, and one pass was made in total
C2_Witness ==
    /\ job \in FlagJobs
    /\ passCount = 1
    /\ \E t, u, v \in Threads :
        /\ startedPass[t] /\ tpc[t] = "returned"
        /\ arrival[u] = "active" /\ tkind[u] = "manual" /\ tpc[u] = "returned"
        /\ arrival[v] = "active" /\ tkind[v] = "cron" /\ tpc[v] = "returned"

\* C3: for the ranking job, a TriggerManualSync call or cron invocation issued
\* while a ranking run is active returns without waiting for that run and
\* causes no second ranking pass after the active run completes (the duplicate
\* is rejected, not queued).
C3_RankingDuplicateRejected ==
    job = "ranking" =>
        \A t \in Threads :
            arrival[t] = "active" => (tpc[t] \notin WaitPcs /\ ~startedPass[t])

\* C21: no two goroutines are ever about to access the same field of
\* SyncRunState (running flag, lastStartedAt, lastCompletedAt) or of the token
\* state (access token, expiry), one of them writing it, unless both hold
\* the state's mutex.
C21_NoUnlockedConflictingAccess ==
    ~SyncRace /\ ~TokenRace

\* C22: the map GetStatus returns has a running entry equal to the job's
\* running flag at the time of the query, together with enabled, cron,
\* concurrency, delay, lastStart and lastComplete.
C22_StatusReportsRunning ==
    \A t \in Threads :
        (tkind[t] = "status" /\ tpc[t] = "returned")
        => /\ "sync_running" \in status[t].keys
           /\ status[t].running = (IF status[t].flag THEN "true" ELSE "false")
           /\ {"sync_enabled", "sync_cron", "sync_max_concurrent",
                "sync_request_delay_s", "last_sync_started_at",
                "last_sync_completed_at"} \subseteq status[t].keys

\* C28: whenever a run returns to Idle, lastCompletedAt has been set by that
\* run, to a time not earlier than the run's lastStartedAt, whatever way the
\* run ended.
C28_CompletionRecordedOnReturn ==
    [][\A t \in Threads :
        (tpc[t] = "deferred" /\ tpc'[t] = "returned")
        => (lastSyncCompletedAt' # 0 /\ lastSyncCompletedAt' >= lastSyncStartedAt')]_vars

(***************************************************************************)
(* Sync run: account workers and per-date fetches, context cancellation    *)
(***************************************************************************)
SyncAccounts == 1..MaxSyncAccounts

\* getDatesToProcess: dates[i] = today - (i + 1) days, most recent first;
\* a date is the number of days before the oldest date of the list, plus one
getDatesToProcess(n) == [i \in 1..n |-> n - i + 1]

\* the positions of a worker goroutine that holds a semaphore slot
ActivePcs == {"sorting", "swapping", "ready", "fetching"}

\* sort state of a worker that has not started sort.Slice
NoSort == [i |-> 2, j |-> 2, tmp |-> 0]

\* the scheduler started, no run active, context live
WorkerInit ==
    /\ ctxDone = FALSE
    /\ schedulerOn = TRUE
    /\ cfgLookback \in 0..LookbackDays
    /\ cfgMaxJobs \in 0..MaxConcurrentJobs
    /\ eligible \in {SyncAccounts, SyncAccounts \ {2}}
    /\ mpc = "idle"
    /\ nextAccount = 1
    /\ semaphore = 0
    /\ dates = <<>>
    /\ wstate = [a \in SyncAccounts |-> "none"]
    /\ wsort = [a \in SyncAccounts |-> NoSort]
    /\ wdate = [a \in SyncAccounts |-> 1]
    /\ wfetched = [a \in SyncAccounts |-> <<>>]
    /\ runsStarted = 0
    /\ lateWorkers = {}
    /\ lateFetches = {}

\* the workers left alone: scheduler never started
WorkerQuiescent ==
    /\ ctxDone = FALSE
    /\ schedulerOn = FALSE
    /\ cfgLookback = LookbackDays
    /\ cfgMaxJobs = MaxConcurrentJobs
    /\ eligible = SyncAccounts
    /\ mpc = "idle"
    /\ nextAccount = 1
    /\ semaphore = 0
    /\ dates = <<>>
    /\ wstate = [a \in SyncAccounts |-> "none"]
    /\ wsort = [a \in SyncAccounts |-> NoSort]
    /\ wdate = [a \in SyncAccounts |-> 1]
    /\ wfetched = [a \in SyncAccounts |-> <<>>]
    /\ runsStarted = 0
    /\ lateWorkers = {}
    /\ lateFetches = {}

\* the cron job fires: syncAllMetaInsights builds the date list, logs
\* dates[len(dates)-1] and dates[0] (index out of range on an empty list: the
\* goroutine panics) and enters processMetaInsightsForDates
syncAllMetaInsights ==
    /\ schedulerOn
    /\ mpc = "idle"
    /\ runsStarted < MaxSyncRuns
    /\ runsStarted' = runsStarted + 1
    /\ mpc' = IF cfgLookback = 0 THEN "crashed" ELSE "loop"
    /\ dates' = getDatesToProcess(cfgLookback)
    /\ nextAccount' = 1
    /\ wstate' = [a \in SyncAccounts |-> "none"]
    /\ wsort' = [a \in SyncAccounts |-> NoSort]
    /\ wdate' = [a \in SyncAccounts |-> 1]
    /\ wfetched' = [a \in SyncAccounts |-> <<>>]
    /\ UNCHANGED <<ctxDone, schedulerOn, cfgLookback, cfgMaxJobs, eligible,
                   semaphore, lateWorkers, lateFetches>>
    /\ UNCHANGED <<svars, tvars, cvars, rvars, mvars, pvars, xvars>>

\* a variant of the semaphore that never blocks
SemaphoreNeverFull == FALSE

\* semaphore <- struct{}{} blocks while the channel buffer is full
SemaphoreFull == semaphore >= cfgMaxJobs

\* for _, account := range accounts: an account without external id is
\* skipped; otherwise wg.Add(1), semaphore <- struct{}{}, go func(acc)
StartWorker ==
    /\ mpc = "loop"
    /\ nextAccount <= MaxSyncAccounts
    /\ IF nextAccount \notin eligible
          THEN UNCHANGED <<semaphore, wstate, lateWorkers>>
          ELSE /\ ~SemaphoreFull
               /\ semaphore' = semaphore + 1
               /\ wstate' = [wstate EXCEPT ![nextAccount] = "sorting"]
               /\ lateWorkers' = IF ctxDone THEN lateWorkers \cup {nextAccount}
                                            ELSE lateWorkers
    /\ nextAccount' = nextAccount + 1
    /\ UNCHANGED <<ctxDone, schedulerOn, cfgLookback, cfgMaxJobs, eligible, mpc,
                   dates, wsort, wdate, wfetched, runsStarted, lateFetches>>
    /\ UNCHANGED <<svars, tvars, cvars, rvars, mvars, pvars, xvars>>

\* processAccountForAllDates: sort.Slice(dates, ...) on the list all workers
\* share; an insertion sort for a list this short.  One step of its loops:
\* the test j > a && less(j, j-1)
SortCompare(a) ==
    /\ wstate[a] = "sorting"
    /\ LET i == wsort[a].i
           j == wsort[a].j
       IN  IF i > Len(dates)
              THEN /\ wstate' = [wstate EXCEPT ![a] = "ready"]
                   /\ UNCHANGED wsort
              ELSE IF j > 1 /\ dates[j] < dates[j-1]
              THEN /\ wstate' = [wstate EXCEPT ![a] = "swapping"]
                   /\ wsort' = [wsort EXCEPT ![a].tmp = 0]
              ELSE /\ wsort' = [wsort EXCEPT ![a] = [i |-> i + 1, j |-> i + 1, tmp |-> 0]]
                   /\ UNCHANGED wstate
    /\ UNCHANGED <<ctxDone, schedulerOn, cfgLookback, cfgMaxJobs, eligible, mpc,
                   nextAccount, semaphore, dates, wdate, wfetched, runsStarted,
                   lateWorkers, lateFetches>>
    /\ UNCHANGED <<svars, tvars, cvars, rvars, mvars, pvars, xvars>>

\* swap(j, j-1) of the sort, not atomic: tmp = dates[j]; dates[j] = dates[j-1],
\* and in a second step dates[j-1] = tmp
SortSwap(a) ==
    /\ wstate[a] = "swapping"
    /\ LET j == wsort[a].j
       IN  IF wsort[a].tmp = 0
              THEN /\ wsort' = [wsort EXCEPT ![a].tmp = dates[j]]
                   /\ dates' = [dates EXCEPT ![j] = dates[j-1]]
                   /\ UNCHANGED wstate
              ELSE /\ dates' = [dates EXCEPT ![j-1] = wsort[a].tmp]
                   /\ wsort' = [wsort EXCEPT ![a].j = j - 1, ![a].tmp = 0]
                   /\ wstate' = [wstate EXCEPT ![a] = "sorting"]
    /\ UNCHANGED <<ctxDone, schedulerOn, cfgLookback, cfgMaxJobs, eligible, mpc,
                   nextAccount, semaphore, wdate, wfetched, runsStarted,
                   lateWorkers, lateFetches>>
    /\ UNCHANGED <<svars, tvars, cvars, rvars, mvars, pvars, xvars>>

\* for _, date := range dates: s.processAccountMetaInsights(acc, date) sends
\* the fetch for the date found at the worker's index
FetchDate(a) ==
    /\ wstate[a] = "ready"
    /\ wdate[a] <= Len(dates)
    /\ wstate' = [wstate EXCEPT ![a] = "fetching"]
    /\ wfetched' = [wfetched EXCEPT ![a] =
                        Append(@, [date |-> dates[wdate[a]], outcome |-> "sent"])]
    /\ lateFetches' = IF ctxDone THEN lateFetches \cup {<<a, wdate[a]>>}
                                 ELSE lateFetches
    /\ UNCHANGED <<ctxDone, schedulerOn, cfgLookback, cfgMaxJobs, eligible, mpc,
                   nextAccount, semaphore, dates, wsort, wdate, runsStarted,
                   lateWorkers>>
    /\ UNCHANGED <<svars, tvars, cvars, rvars, mvars, pvars, xvars>>

\* processAccountMetaInsights returns: the record was saved, or the fetch or
\* the save failed and the error was logged; then time.Sleep and the next date
FetchDone(a) ==
    /\ wstate[a] = "fetching"
    /\ \E o \in {"saved", "error"} :
        wfetched' = [wfetched EXCEPT ![a][Len(wfetched[a])].outcome = o]
    /\ wstate' = [wstate EXCEPT ![a] = "ready"]
    /\ wdate' = [wdate EXCEPT ![a] = @ + 1]
    /\ UNCHANGED <<ctxDone, schedulerOn, cfgLookback, cfgMaxJobs, eligible, mpc,
                   nextAccount, semaphore, dates, wsort, runsStarted,
                   lateWorkers, lateFetches>>
    /\ UNCHANGED <<svars, tvars, cvars, rvars, mvars, pvars, xvars>>

\* the worker's deferred function: <-semaphore, wg.Done()
WorkerDone(a) ==
    /\ wstate[a] = "ready"
    /\ wdate[a] > Len(dates)
    /\ wstate' = [wstate EXCEPT ![a] = "done"]
    /\ semaphore' = semaphore - 1
    /\ UNCHANGED <<ctxDone, schedulerOn, cfgLookback, cfgMaxJobs, eligible, mpc,
                   nextAccount, dates, wsort, wdate, wfetched, runsStarted,
                   lateWorkers, lateFetches>>
    /\ UNCHANGED <<svars, tvars, cvars, rvars, mvars, pvars, xvars>>

\* the loop over the accounts ended: wg.Wait()
WaitWorkers ==
    /\ mpc = "loop"
    /\ nextAccount > MaxSyncAccounts
    /\ mpc' = "wait"
    /\ UNCHANGED <<ctxDone, schedulerOn, cfgLookback, cfgMaxJobs, eligible,
                   nextAccount, semaphore, dates, wstate, wsort, wdate, wfetched,
                   runsStarted, lateWorkers, lateFetches>>
    /\ UNCHANGED <<svars, tvars, cvars, rvars, mvars, pvars, xvars>>

\* wg.Wait() returns and the run ends
RunDone ==
    /\ mpc = "wait"
    /\ \A a \in SyncAccounts : wstate[a] \in {"none", "done"}
    /\ mpc' = "idle"
    /\ UNCHANGED <<ctxDone, schedulerOn, cfgLookback, cfgMaxJobs, eligible,
                   nextAccount, semaphore, dates, wstate, wsort, wdate, wfetched,
                   runsStarted, lateWorkers, lateFetches>>
    /\ UNCHANGED <<svars, tvars, cvars, rvars, mvars, pvars, xvars>>

\* main: cancel() of the process context
CancelContext ==
    /\ ~ctxDone
    /\ mpc # "crashed"
    /\ ctxDone' = TRUE
    /\ UNCHANGED <<schedulerOn, cfgLookback, cfgMaxJobs, eligible, mpc,
                   nextAccount, semaphore, dates, wstate, wsort, wdate, wfetched,
                   runsStarted, lateWorkers, lateFetches>>
    /\ UNCHANGED <<svars, tvars, cvars, rvars, mvars, pvars, xvars>>

\* Start's goroutine: <-ctx.Done(), s.scheduler.Stop()
SchedulerStop ==
    /\ ctxDone
    /\ schedulerOn
    /\ schedulerOn' = FALSE
    /\ UNCHANGED <<ctxDone, cfgLookback, cfgMaxJobs, eligible, mpc, nextAccount,
                   semaphore, dates, wstate, wsort, wdate, wfetched, runsStarted,
                   lateWorkers, lateFetches>>
    /\ UNCHANGED <<svars, tvars, cvars, rvars, mvars, pvars, xvars>>

\* the run's loop is at an account that needs a slot of a semaphore channel
\* made with capacity 0: the send blocks and no worker exists to receive
RunBlocked ==
    /\ mpc = "loop"
    /\ nextAccount <= MaxSyncAccounts
    /\ nextAccount \in eligible
    /\ cfgMaxJobs = 0

WorkerNext ==
    \/ syncAllMetaInsights
    \/ StartWorker
    \/ \E a \in SyncAccounts :
        \/ SortCompare(a)
        \/ SortSwap(a)
        \/ FetchDate(a)
        \/ FetchDone(a)
        \/ WorkerDone(a)
    \/ WaitWorkers
    \/ RunDone
    \/ CancelContext
    \/ SchedulerStop

(***************************************************************************)
(* Aggregation: combineAdMetrics                                           *)
(***************************************************************************)
CombineDates == 1..MaxCombineRecords
CampaignIds == {"c1", "c2"}

\* a per-day record: the day's account metrics and its one campaign, which
\* carries the day's impressions, result and spend (money in cents)
AdRecords ==
    [date : CombineDates, result : {1, 2}, costPerResult : {50, 75},
     spend : {100, 150}, impressions : {10}, reach : {5},
     campaign : CampaignIds, nilMetrics : {FALSE}, name : {"A", "B"}]

\* a per-day record whose AdMetrics is nil
NilRecords == [date : CombineDates, nilMetrics : {TRUE}]

\* lists of records with non-nil metrics and pairwise distinct dates
RecordLists ==
    {l \in UNION {[1..n -> AdRecords] : n \in 1..MaxCombineRecords} :
        \A i, j \in DOMAIN l : i # j => l[i].date # l[j].date}

\* lists with distinct dates that hold records with nil metrics and at least
\* one record with metrics
NilRecordLists ==
    {l \in UNION {[1..n -> AdRecords \cup NilRecords] : n \in 1..MaxCombineRecords} :
        /\ \A i, j \in DOMAIN l : i # j => l[i].date # l[j].date
        /\ \E i \in DOMAIN l : l[i].nilMetrics
        /\ \E i \in DOMAIN l : ~l[i].nilMetrics}

RecordOrders(n) ==
    {f \in [1..n -> 1..n] : \A i, j \in 1..n : i # j => f[i] # f[j]}

\* total of a field over the first n records: total += insight.AdMetrics.X
RECURSIVE SumTo(_, _, _)
SumTo(l, n, fld) ==
    IF n = 0 THEN 0
    ELSE SumTo(l, n - 1, fld) + (IF l[n].nilMetrics THEN 0 ELSE l[n][fld])

\* the part of a field's total that comes from the records dated d
RECURSIVE SumDate(_, _, _, _)
SumDate(l, n, fld, d) ==
    IF n = 0 THEN 0
    ELSE SumDate(l, n - 1, fld, d)
         + (IF ~l[n].nilMetrics /\ l[n].date = d THEN l[n][fld] ELSE 0)

\* the part that comes from the records of campaign c
RECURSIVE SumCampaign(_, _, _, _)
SumCampaign(l, n, fld, c) ==
    IF n = 0 THEN 0
    ELSE SumCampaign(l, n - 1, fld, c)
         + (IF ~l[n].nilMetrics /\ l[n].campaign = c THEN l[n][fld] ELSE 0)

\* the per-date map: the entry of adInsights[0]'s date is set to its value
\* before the loop, then the loop adds every record's value to its date
ByDate(l, fld) ==
    [d \in {l[i].date : i \in {k \in DOMAIN l : k = 1 \/ ~l[k].nilMetrics}} |->
        (IF d = l[1].date THEN l[1][fld] ELSE 0) + SumDate(l, Len(l), fld, d)]

\* utils.RoundWithTwoDecimalPlace(a / b), in cents
RoundWithTwoDecimalPlace(a, b) == (2 * a + b) \div (2 * b)

\* campaignMap: the sums per campaign id and the recomputed cost per result
CampaignSums(l) ==
    [c \in {l[i].campaign : i \in {k \in DOMAIN l : ~l[k].nilMetrics}} |->
        LET res == SumCampaign(l, Len(l), "result", c)
            spd == SumCampaign(l, Len(l), "spend", c)
        IN  [impressions |-> SumCampaign(l, Len(l), "impressions", c),
             result |-> res,
             spend |-> spd,
             costPerResult |-> IF res > 0 THEN RoundWithTwoDecimalPlace(spd, res) ELSE 0]]

NoMetrics == [none |-> TRUE]
\* adInsights[0].AdMetrics.CostPerResult with a nil AdMetrics: the call panics
NilDereference == [panic |-> TRUE]

\* the 'if insight.AdMetrics == nil { continue }' of the loop comes after the
\* reads of adInsights[0].AdMetrics before it
combineAdMetrics(l) ==
    IF Len(l) = 0 THEN NoMetrics
    ELSE IF l[1].nilMetrics THEN NilDereference
    ELSE [impressions |-> SumTo(l, Len(l), "impressions"),
          reach |-> SumTo(l, Len(l), "reach"),
          result |-> SumTo(l, Len(l), "result"),
          spend |-> SumTo(l, Len(l), "spend"),
          resultByDate |-> ByDate(l, "result"),
          costPerResultByDate |-> ByDate(l, "costPerResult"),
          campaigns |-> CampaignSums(l)]

CombineInit ==
    /\ cmbIn \in RecordLists
    /\ cmbPc = "input"
    /\ cmbOut = NoMetrics
    /\ cmbOutP = NoMetrics
    /\ cmbName = ""

\* a list in which some records have nil metrics
CombineNilInit ==
    /\ cmbIn \in NilRecordLists
    /\ cmbPc = "input"
    /\ cmbOut = NoMetrics
    /\ cmbOutP = NoMetrics
    /\ cmbName = ""

\* no aggregation asked for
CombineQuiescent ==
    /\ cmbIn = <<>>
    /\ cmbPc = "idle"
    /\ cmbOut = NoMetrics
    /\ cmbOutP = NoMetrics
    /\ cmbName = ""

\* combineAdMetrics(adInsights) on the list as given; Name is read from
\* adInsights[0].AdMetrics
Combine ==
    /\ cmbPc = "input"
    /\ cmbOut' = combineAdMetrics(cmbIn)
    /\ cmbPc' = IF combineAdMetrics(cmbIn) = NilDereference THEN "panicked" ELSE "combined"
    /\ cmbName' = IF Len(cmbIn) = 0 \/ cmbIn[1].nilMetrics THEN "" ELSE cmbIn[1].name
    /\ UNCHANGED <<cmbIn, cmbOutP>>
    /\ UNCHANGED <<svars, tvars, cvars, rvars, wvars, pvars, xvars>>

\* combineAdMetrics on the same records in another order
CombinePermuted ==
    /\ cmbPc = "combined"
    /\ \E f \in RecordOrders(Len(cmbIn)) :
        cmbOutP' = combineAdMetrics([i \in DOMAIN cmbIn |-> cmbIn[f[i]]])
    /\ cmbPc' = "done"
    /\ UNCHANGED <<cmbIn, cmbOut, cmbName>>
    /\ UNCHANGED <<svars, tvars, cvars, rvars, wvars, pvars, xvars>>

CombineNext == Combine \/ CombinePermuted

(***************************************************************************)
(* Ranking: processTopRankingAccountsWithDate and updatePositions          *)
(***************************************************************************)
Accounts == 1..MaxAccounts
\* social-network revenue a sales fetch may add up to
Revenues == {1000, 2500}
NoRow == [position |-> 0, positionChange |-> 0, previousPosition |-> 0, revenue |-> 0]

\* the Gregorian calendar, as time.Date and AddDate use it
IsLeap(y) == (y % 4 = 0 /\ y % 100 # 0) \/ y % 400 = 0
DaysIn(y, m) ==
    IF m = 2 THEN (IF IsLeap(y) THEN 29 ELSE 28)
    ELSE IF m \in {4, 6, 9, 11} THEN 30 ELSE 31

\* date.AddDate(0, 0, 1)
Tomorrow(date) ==
    IF date.d < DaysIn(date.y, date.m) THEN [date EXCEPT !.d = @ + 1]
    ELSE IF date.m < 12 THEN [y |-> date.y, m |-> date.m + 1, d |-> 1]
    ELSE [y |-> date.y + 1, m |-> 1, d |-> 1]

\* a variant that stays on the first day of a month
YesterdaySameMonth(date) == [date EXCEPT !.d = IF @ > 1 THEN @ - 1 ELSE 1]

\* processingDate.AddDate(0, 0, -1)
Yesterday(date) ==
    IF date.d > 1 THEN [date EXCEPT !.d = @ - 1]
    ELSE IF date.m > 1 THEN [y |-> date.y, m |-> date.m - 1, d |-> DaysIn(date.y, date.m - 1)]
    ELSE [y |-> date.y - 1, m |-> 12, d |-> 31]

\* time.Date(date.Year(), date.Month(), 1, ...)
getFirstDayOfMonth(date) == [date EXCEPT !.d = 1]

\* date.Format("01-2006"): month and year
MonthKey(date) == <<date.m, date.y>>

\* the date on which the behaviour starts: the last day of a year
StartDates == {[y |-> 2023, m |-> 12, d |-> 31]}
\* months that can be a key of store_ranking
RankMonths == {<<12, 2023>>, <<1, 2024>>}

\* getActiveAccounts: any list of distinct eligible accounts
AccountLists ==
    {l \in UNION {[1..n -> Accounts] : n \in 0..MaxAccounts} :
        \A i, j \in DOMAIN l : i # j => l[i] # l[j]}

\* the orders sort.Slice may leave: no item before one of greater revenue
SortedOrders(items) ==
    {p \in [DOMAIN items -> DOMAIN items] :
        /\ \A i, j \in DOMAIN items : i # j => p[i] # p[j]
        /\ \A i, j \in DOMAIN items :
            i < j => items[p[i]].revenue >= items[p[j]].revenue}

\* a variant of updatePositions numbering from zero
PositionOfFromZero(i) == i - 1

\* ranking.Position = i + 1 for the (0-based) index; i here is 1-based
PositionOf(i) == i

\* a variant that compares the new position with itself
PositionChangeNone(before, position) == 0

\* ranking.PositionChange = rankingBefore.Position - ranking.Position
PositionChange(before, position) == before - position

\* updatePositions: sort by revenue, then number the items and compare each
\* with the row found for its account, if any
updatePositions(items, order, before) ==
    [i \in DOMAIN items |->
        LET it == items[order[i]]
        IN  IF it.account \in DOMAIN before
               THEN [it EXCEPT !.position = PositionOf(i),
                               !.positionChange = PositionChange(before[it.account], PositionOf(i)),
                               !.previousPosition = before[it.account]]
               ELSE [it EXCEPT !.position = PositionOf(i)]]

\* the rows drained from rankingBeforeUpdate, as a map account -> position
\* (a later row of the same account replaces an earlier one)
BeforeMap(rows) ==
    [a \in {rows[i].account : i \in DOMAIN rows} |->
        LET last == CHOOSE i \in DOMAIN rows :
                        /\ rows[i].account = a
                        /\ \A j \in DOMAIN rows : rows[j].account = a => j <= i
        IN  rows[last].position]

\* a variant with unbuffered channels
ChannelCapZero(accts) == 0

\* make(chan domain.StoreRankingItem, len(accounts)), for both channels
ChannelCap(accts) == Len(accts)

NoLookups == [a \in Accounts |-> "none"]
NoFetched == [a \in Accounts |-> 0]

RankInit ==
    /\ rankStore = [k \in Accounts \X RankMonths |-> NoRow]
    /\ rankToday \in StartDates
    /\ rankAdv = 0
    /\ runNo = 0
    /\ rpc = "idle"
    /\ processingDate = rankToday
    /\ accounts = <<>>
    /\ lookup = NoLookups
    /\ fetch = NoLookups
    /\ rankingBeforeUpdate = <<>>
    /\ rankings = <<>>
    /\ lookupMonths = {}
    /\ fetchRanges = {}
    /\ fetched = NoFetched
    /\ rhist = <<>>

\* no ranking run is made
RankQuiescent ==
    /\ rankStore = [k \in Accounts \X RankMonths |-> NoRow]
    /\ rankToday = [y |-> 2023, m |-> 12, d |-> 31]
    /\ rankAdv = 0
    /\ runNo = 0
    /\ rpc = "idle"
    /\ processingDate = rankToday
    /\ accounts = <<>>
    /\ lookup = NoLookups
    /\ fetch = NoLookups
    /\ rankingBeforeUpdate = <<>>
    /\ rankings = <<>>
    /\ lookupMonths = {}
    /\ fetchRanges = {}
    /\ fetched = NoFetched
    /\ rhist = <<>>

\* processTopRankingAccounts: processTopRankingAccountsWithDate(accounts,
\* time.Now()); two goroutines are started per account
processTopRankingAccounts ==
    /\ rpc = "idle"
    /\ runNo < MaxRuns
    /\ runNo' = runNo + 1
    /\ \E l \in AccountLists :
        /\ accounts' = l
        /\ lookup' = [a \in Accounts |-> IF \E i \in DOMAIN l : l[i] = a THEN "todo" ELSE "none"]
        /\ fetch' = [a \in Accounts |-> IF \E i \in DOMAIN l : l[i] = a THEN "todo" ELSE "none"]
    /\ processingDate' = rankToday
    /\ rpc' = "running"
    /\ UNCHANGED <<rankStore, rankToday, rankAdv, rankingBeforeUpdate, rankings,
                   lookupMonths, fetchRanges, fetched, rhist>>
    /\ UNCHANGED <<svars, tvars, cvars, wvars, mvars, pvars, xvars>>

\* first goroutine of an account: GetByAccountID(account.ID, month); an error
\* is logged, a row found is sent to rankingBeforeUpdate
GetByAccountID(a) ==
    /\ rpc = "running"
    /\ lookup[a] = "todo"
    /\ LET month == MonthKey(Yesterday(processingDate))
           row == rankStore[<<a, month>>]
       IN  /\ lookupMonths' = lookupMonths \cup {month}
           /\ \/ /\ lookup' = [lookup EXCEPT ![a] = "error"]
                 /\ UNCHANGED rankingBeforeUpdate
              \/ /\ row = NoRow
                 /\ lookup' = [lookup EXCEPT ![a] = "absent"]
                 /\ UNCHANGED rankingBeforeUpdate
              \/ /\ row # NoRow
                 /\ Len(rankingBeforeUpdate) < ChannelCap(accounts)
                 /\ lookup' = [lookup EXCEPT ![a] = "found"]
                 /\ rankingBeforeUpdate' =
                        Append(rankingBeforeUpdate, [account |-> a, position |-> row.position])
    /\ UNCHANGED <<rankStore, rankToday, rankAdv, runNo, rpc, processingDate,
                   accounts, fetch, rankings, fetchRanges, fetched, rhist>>
    /\ UNCHANGED <<svars, tvars, cvars, wvars, mvars, pvars, xvars>>

\* second goroutine of an account: getSalesByAccount(account, firstDayOfMonth,
\* yesterday); an error is logged, otherwise a new item is sent to rankings
getSalesByAccount(a) ==
    /\ rpc = "running"
    /\ fetch[a] = "todo"
    /\ LET yesterday == Yesterday(processingDate)
       IN  /\ fetchRanges' = fetchRanges \cup {<<getFirstDayOfMonth(yesterday), yesterday>>}
           /\ \/ /\ fetch' = [fetch EXCEPT ![a] = "failed"]
                 /\ UNCHANGED <<rankings, fetched>>
              \/ \E rev \in Revenues :
                    /\ Len(rankings) < ChannelCap(accounts)
                    /\ fetch' = [fetch EXCEPT ![a] = "sent"]
                    /\ fetched' = [fetched EXCEPT ![a] = rev]
                    /\ rankings' = Append(rankings,
                          [account |-> a, month |-> MonthKey(yesterday), revenue |-> rev,
                           position |-> 0, positionChange |-> 0, previousPosition |-> 0])
    /\ UNCHANGED <<rankStore, rankToday, rankAdv, runNo, rpc, processingDate,
                   accounts, lookup, rankingBeforeUpdate, lookupMonths, rhist>>
    /\ UNCHANGED <<svars, tvars, cvars, wvars, mvars, pvars, xvars>>

\* a variant that writes no row
SaveNothing(items) == rankStore

\* SaveOrUpdateStoreRanking: one batch upsert on (account_id, month)
SaveOrUpdateStoreRanking(items) ==
    [k \in Accounts \X RankMonths |->
        IF \E i \in DOMAIN items : <<items[i].account, items[i].month>> = k
           THEN LET i == CHOOSE i \in DOMAIN items : <<items[i].account, items[i].month>> = k
                IN  [position |-> items[i].position,
                     positionChange |-> items[i].positionChange,
                     previousPosition |-> items[i].previousPosition,
                     revenue |-> items[i].revenue]
           ELSE rankStore[k]]

\* after wg.Wait(): drain both channels, updatePositions, one
\* SaveOrUpdateStoreRanking call (its error is logged), return the items
RankFinish ==
    /\ rpc = "running"
    /\ \A a \in Accounts : lookup[a] # "todo" /\ fetch[a] # "todo"
    /\ \E order \in SortedOrders(rankings), ok \in BOOLEAN :
        LET updatedRankings == updatePositions(rankings, order, BeforeMap(rankingBeforeUpdate))
        IN  /\ rankStore' = IF ok THEN SaveOrUpdateStoreRanking(updatedRankings) ELSE rankStore
            /\ rhist' = Append(rhist,
                  [date |-> processingDate, accounts |-> accounts, lookup |-> lookup,
                   fetch |-> fetch, fetched |-> fetched, lookupMonths |-> lookupMonths,
                   fetchRanges |-> fetchRanges, start |-> rankStore,
                   result |-> updatedRankings, saveCalls |-> 1, saved |-> updatedRankings,
                   saveOk |-> ok, stored |-> rankStore'])
    /\ rpc' = "idle"
    /\ accounts' = <<>>
    /\ lookup' = NoLookups
    /\ fetch' = NoLookups
    /\ rankingBeforeUpdate' = <<>>
    /\ rankings' = <<>>
    /\ lookupMonths' = {}
    /\ fetchRanges' = {}
    /\ fetched' = NoFetched
    /\ UNCHANGED <<rankToday, rankAdv, runNo, processingDate>>
    /\ UNCHANGED <<svars, tvars, cvars, wvars, mvars, pvars, xvars>>

\* midnight passes (a run reads time.Now() once, when it starts)
AdvanceRankDay ==
    /\ rpc = "idle"
    /\ rankAdv < MaxRankDays
    /\ rankAdv' = rankAdv + 1
    /\ rankToday' = Tomorrow(rankToday)
    /\ UNCHANGED <<rankStore, runNo, rpc, processingDate, accounts, lookup, fetch,
                   rankingBeforeUpdate, rankings, lookupMonths, fetchRanges,
                   fetched, rhist>>
    /\ UNCHANGED <<svars, tvars, cvars, wvars, mvars, pvars, xvars>>

RankNext ==
    \/ processTopRankingAccounts
    \/ \E a \in Accounts : GetByAccountID(a) \/ getSalesByAccount(a)
    \/ RankFinish
    \/ AdvanceRankDay

(***************************************************************************)
(* Cache-fill: getAdMetricsWithCache (getSalesMetricsWithCache has the     *)
(* same steps on the sales table)                                          *)
(***************************************************************************)
Days == 0..MaxDay
\* const maxConcurrent = 5
maxConcurrent == 5

\* no record appended for any date
NoRecords == [d \in Days |-> <<>>]
NoTasks == [d \in Days |-> "none"]
NoFetches == [d \in Days |-> 0]

\* generateDateRange: the days from startDate to endDate, none if start is after end
generateDateRange(startDate, endDate) ==
    IF startDate > endDate THEN {} ELSE startDate..endDate

\* GetByDateRange: the days of [startDate, endDate] that have a row
GetByDateRange(startDate, endDate) ==
    {d \in Days : startDate <= d /\ d <= endDate /\ store[d] # "none"}

\* a variant that drops the rows already in the store from the result list
StoredRecordsDropped(rows) == NoRecords

\* the rows found are appended to the result list
StoredRecords(rows) ==
    [d \in Days |-> IF d \in rows THEN <<store[d]>> ELSE <<>>]

\* a variant that fetches every requested date, cached or not
MissingDatesAll(allDates, existing) == allDates

\* the requested dates that are not among the existing ones
MissingDates(allDates, existing) == {d \in allDates : d \notin existing}

\* goroutines that hold a slot of the semaphore
InFlight == Cardinality({d \in Days : task[d] \in {"fetching", "fetched"}})

CacheInit ==
    /\ store0 \in [Days -> {"none", "old"}]
    /\ store = store0
    /\ clockDay \in Days
    /\ callNo = 0
    /\ cpc = "idle"
    /\ cStart = 0
    /\ cEnd = 0
    /\ callDay = 0
    /\ cStore = store0
    /\ dbOk = TRUE
    /\ task = NoTasks
    /\ fetches = NoFetches
    /\ saves = NoTasks
    /\ adInsights = NoRecords
    /\ hist = <<>>

\* no cache-fill call is made
CacheQuiescent ==
    /\ store0 = [d \in Days |-> "none"]
    /\ store = store0
    /\ clockDay = 0
    /\ callNo = 0
    /\ cpc = "idle"
    /\ cStart = 0
    /\ cEnd = 0
    /\ callDay = 0
    /\ cStore = store0
    /\ dbOk = TRUE
    /\ task = NoTasks
    /\ fetches = NoFetches
    /\ saves = NoTasks
    /\ adInsights = NoRecords
    /\ hist = <<>>

\* GetAdAccountsByIDWithCache: allDates := generateDateRange(start, end); an
\* empty list ends the call with an error before any query
GetAdAccountsByIDWithCache ==
    /\ cpc = "idle"
    /\ callNo < MaxCalls
    /\ \E a, b \in Days :
        /\ generateDateRange(a, b) # {}
        /\ cStart' = a
        /\ cEnd' = b
    /\ callNo' = callNo + 1
    /\ callDay' = clockDay
    /\ cStore' = store
    /\ cpc' = "query"
    /\ UNCHANGED <<store0, store, clockDay, dbOk, task, fetches, saves, adInsights, hist>>
    /\ UNCHANGED <<svars, tvars, rvars, wvars, mvars, pvars, xvars>>

\* getAdMetricsWithCache, steps 1 and 2: one range query (an error is logged
\* and leaves every date missing), then one goroutine per missing date
QueryAndLaunch ==
    /\ cpc = "query"
    /\ \E ok \in BOOLEAN :
        LET rows == IF ok THEN GetByDateRange(cStart, cEnd) ELSE {}
        IN  /\ dbOk' = ok
            /\ adInsights' = StoredRecords(rows)
            /\ task' = [d \in Days |->
                          IF d \in MissingDates(generateDateRange(cStart, cEnd), rows)
                             THEN "waiting" ELSE "none"]
    /\ cpc' = "wait"
    /\ UNCHANGED <<store0, store, clockDay, callNo, cStart, cEnd, callDay, cStore,
                   fetches, saves, hist>>
    /\ UNCHANGED <<svars, tvars, rvars, wvars, mvars, pvars, xvars>>

\* the goroutine of date d takes a slot of the semaphore and sends the fetch
FetchSend(d) ==
    /\ task[d] = "waiting"
    /\ InFlight < maxConcurrent
    /\ task' = [task EXCEPT ![d] = "fetching"]
    /\ fetches' = [fetches EXCEPT ![d] = @ + 1]
    /\ UNCHANGED <<store0, store, clockDay, callNo, cpc, cStart, cEnd, callDay,
                   cStore, dbOk, saves, adInsights, hist>>
    /\ UNCHANGED <<svars, tvars, rvars, wvars, mvars, pvars, xvars>>

\* GetAdAccountsInsights answers: on an error the goroutine returns, leaving
\* the date out; otherwise it holds the fetched record
FetchAnswer(d) ==
    /\ task[d] = "fetching"
    /\ \E ok \in BOOLEAN : task' = [task EXCEPT ![d] = IF ok THEN "fetched" ELSE "failed"]
    /\ UNCHANGED <<store0, store, clockDay, callNo, cpc, cStart, cEnd, callDay,
                   cStore, dbOk, fetches, saves, adInsights, hist>>
    /\ UNCHANGED <<svars, tvars, rvars, wvars, mvars, pvars, xvars>>

\* a variant that returns from the goroutine when SaveOrUpdate fails
appendUnlessSaveFailed(recs, d, saved) ==
    IF saved = "err" THEN recs ELSE [recs EXCEPT ![d] = Append(@, "src")]

\* adInsights = append(adInsights, adInsight), whatever SaveOrUpdate returned
appendFetched(recs, d, saved) ==
    [recs EXCEPT ![d] = Append(@, "src")]

\* if the date is not the day of time.Now(), SaveOrUpdate (its error is only
\* logged); then the record is appended to the result list in any case
SaveAndAppend(d) ==
    /\ task[d] = "fetched"
    /\ IF d # clockDay
          THEN \E ok \in BOOLEAN :
                /\ store' = IF ok THEN [store EXCEPT ![d] = "src"] ELSE store
                /\ saves' = [saves EXCEPT ![d] = IF ok THEN "ok" ELSE "err"]
          ELSE /\ saves' = [saves EXCEPT ![d] = "skip"]
               /\ UNCHANGED store
    /\ adInsights' = appendFetched(adInsights, d, saves'[d])
    /\ task' = [task EXCEPT ![d] = "done"]
    /\ UNCHANGED <<store0, clockDay, callNo, cpc, cStart, cEnd, callDay, cStore,
                   dbOk, fetches, hist>>
    /\ UNCHANGED <<svars, tvars, rvars, wvars, mvars, pvars, xvars>>

\* fetchWg.Wait() is over: the call returns the result list
CacheReturn ==
    /\ cpc = "wait"
    /\ \A d \in Days : task[d] \in {"none", "done", "failed"}
    /\ hist' = Append(hist, [a |-> cStart, b |-> cEnd, start |-> cStore,
                             dbOk |-> dbOk, fetches |-> fetches, saves |-> saves,
                             result |-> adInsights])
    /\ cpc' = "idle"
    /\ cStart' = 0
    /\ cEnd' = 0
    /\ callDay' = 0
    /\ cStore' = store0
    /\ dbOk' = TRUE
    /\ task' = NoTasks
    /\ fetches' = NoFetches
    /\ saves' = NoTasks
    /\ adInsights' = NoRecords
    /\ UNCHANGED <<store0, store, clockDay, callNo>>
    /\ UNCHANGED <<svars, tvars, rvars, wvars, mvars, pvars, xvars>>

\* between two calls the table is put back to its rows before the first call
RestoreStore ==
    /\ cpc = "idle"
    /\ callNo < MaxCalls
    /\ store # store0
    /\ store' = store0
    /\ UNCHANGED <<store0, clockDay, callNo, cpc, cStart, cEnd, callDay, cStore,
                   dbOk, task, fetches, saves, adInsights, hist>>
    /\ UNCHANGED <<svars, tvars, rvars, wvars, mvars, pvars, xvars>>

\* midnight passes
AdvanceDay ==
    /\ clockDay <= MaxDay
    /\ clockDay' = clockDay + 1
    /\ UNCHANGED <<store0, store, callNo, cpc, cStart, cEnd, callDay, cStore,
                   dbOk, task, fetches, saves, adInsights, hist>>
    /\ UNCHANGED <<svars, tvars, rvars, wvars, mvars, pvars, xvars>>

CacheNext ==
    \/ GetAdAccountsByIDWithCache
    \/ QueryAndLaunch
    \/ \E d \in Days : FetchSend(d) \/ FetchAnswer(d) \/ SaveAndAppend(d)
    \/ CacheReturn
    \/ RestoreStore
    \/ AdvanceDay

(***************************************************************************)
(* Cache-fill, step 2 with up to MaxMissingDates missing dates: the loop   *)
(* over missingAdDates, the semaphore of capacity maxConcurrent and        *)
(* fetchWg. The table and the result list are left out here (they are in   *)
(* the cache-fill actions above, which run with fewer dates).              *)
(***************************************************************************)
MissingIdx == 1..MaxMissingDates

NoPoolTasks == [d \in MissingIdx |-> "none"]
NoPoolCount == [d \in MissingIdx |-> 0]

\* goroutines between 'semaphore <- struct{}{}' and the deferred '<-semaphore'
PoolInFlight == Cardinality({d \in MissingIdx : poolTask[d] \in {"fetching", "fetched"}})

\* a variant whose semaphore never blocks a sender
PoolNeverFull == FALSE

\* a send to the semaphore blocks while maxConcurrent slots are taken
PoolFull == PoolInFlight >= maxConcurrent

PoolInit ==
    /\ poolMissing \in 0..MaxMissingDates
    /\ poolNext = 1
    /\ poolPc = "idle"
    /\ poolTask = NoPoolTasks
    /\ poolLaunched = NoPoolCount
    /\ poolFetches = NoPoolCount
    /\ poolPeak = 0

\* no cache-fill with many dates is made
PoolQuiescent ==
    /\ poolMissing = 0
    /\ poolNext = 1
    /\ poolPc = "idle"
    /\ poolTask = NoPoolTasks
    /\ poolLaunched = NoPoolCount
    /\ poolFetches = NoPoolCount
    /\ poolPeak = 0

\* if len(missingAdDates) > 0 the goroutines are launched, otherwise the
\* call returns what the table gave
PoolStart ==
    /\ poolPc = "idle"
    /\ poolPc' = IF poolMissing > 0 THEN "launching" ELSE "returned"
    /\ UNCHANGED <<poolMissing, poolNext, poolTask, poolLaunched, poolFetches, poolPeak>>
    /\ UNCHANGED <<svars, tvars, cvars, rvars, wvars, mvars, xvars>>

\* one turn of 'for _, date := range missingAdDates': fetchWg.Add(1) and
\* 'go func(date)'; after the last date the caller is in fetchWg.Wait()
PoolLaunch ==
    /\ poolPc = "launching"
    /\ poolTask' = [poolTask EXCEPT ![poolNext] = "waiting"]
    /\ poolLaunched' = [poolLaunched EXCEPT ![poolNext] = @ + 1]
    /\ poolNext' = poolNext + 1
    /\ poolPc' = IF poolNext = poolMissing THEN "wait" ELSE "launching"
    /\ UNCHANGED <<poolMissing, poolFetches, poolPeak>>
    /\ UNCHANGED <<svars, tvars, cvars, rvars, wvars, mvars, xvars>>

\* the goroutine of date d takes a slot and calls GetAdAccountsInsights
PoolAcquire(d) ==
    /\ poolTask[d] = "waiting"
    /\ ~PoolFull
    /\ poolTask' = [poolTask EXCEPT ![d] = "fetching"]
    /\ poolFetches' = [poolFetches EXCEPT ![d] = @ + 1]
    /\ poolPeak' = IF PoolInFlight + 1 > poolPeak THEN PoolInFlight + 1 ELSE poolPeak
    /\ UNCHANGED <<poolMissing, poolNext, poolPc, poolLaunched>>
    /\ UNCHANGED <<svars, tvars, cvars, rvars, wvars, mvars, xvars>>

\* the fetch answers: on an error the goroutine returns (slot released,
\* fetchWg.Done), otherwise it goes on with the record
PoolAnswer(d) ==
    /\ poolTask[d] = "fetching"
    /\ \E ok \in BOOLEAN :
        poolTask' = [poolTask EXCEPT ![d] = IF ok THEN "fetched" ELSE "failed"]
    /\ UNCHANGED <<poolMissing, poolNext, poolPc, poolLaunched, poolFetches, poolPeak>>
    /\ UNCHANGED <<svars, tvars, cvars, rvars, wvars, mvars, xvars>>

\* SaveOrUpdate (or not, for today), the append under the mutex, then the
\* deferred slot release and fetchWg.Done
PoolSaveAndAppend(d) ==
    /\ poolTask[d] = "fetched"
    /\ poolTask' = [poolTask EXCEPT ![d] = "done"]
    /\ UNCHANGED <<poolMissing, poolNext, poolPc, poolLaunched, poolFetches, poolPeak>>
    /\ UNCHANGED <<svars, tvars, cvars, rvars, wvars, mvars, xvars>>

\* fetchWg.Wait() is over: every goroutine called fetchWg.Done
PoolReturn ==
    /\ poolPc = "wait"
    /\ \A d \in MissingIdx : poolTask[d] \in {"none", "done", "failed"}
    /\ poolPc' = "returned"
    /\ UNCHANGED <<poolMissing, poolNext, poolTask, poolLaunched, poolFetches, poolPeak>>
    /\ UNCHANGED <<svars, tvars, cvars, rvars, wvars, mvars, xvars>>

PoolNext ==
    \/ PoolStart
    \/ PoolLaunch
    \/ \E d \in MissingIdx : PoolAcquire(d) \/ PoolAnswer(d) \/ PoolSaveAndAppend(d)
    \/ PoolReturn

(***************************************************************************)
(* Date lists: getDatesToProcess of the daily jobs and the period loop of  *)
(* syncMonthlyInsights                                                     *)
(***************************************************************************)
\* dates on which a run may start: month ends, the 29th to 31st, a leap day
CalendarStarts ==
    {[y |-> 2024, m |-> 1, d |-> 15], [y |-> 2024, m |-> 3, d |-> 1],
     [y |-> 2024, m |-> 3, d |-> 29], [y |-> 2024, m |-> 3, d |-> 30],
     [y |-> 2024, m |-> 3, d |-> 31], [y |-> 2023, m |-> 3, d |-> 29],
     [y |-> 2024, m |-> 5, d |-> 31], [y |-> 2024, m |-> 12, d |-> 31],
     [y |-> 2024, m |-> 2, d |-> 29], [y |-> 2024, m |-> 1, d |-> 31]}

\* date.AddDate(0, 0, -n)
RECURSIVE DaysBefore(_, _)
DaysBefore(date, n) == IF n = 0 THEN date ELSE DaysBefore(Yesterday(date), n - 1)

\* date.AddDate(0, k, 0): the month is moved by k and the result normalised,
\* so a day past the end of the month found runs over into the next month
AddMonths(date, k) ==
    LET total == date.y * 12 + (date.m - 1) + k
        y == total \div 12
        m == (total % 12) + 1
    IN  IF date.d <= DaysIn(y, m)
           THEN [y |-> y, m |-> m, d |-> date.d]
           ELSE [y |-> (total + 1) \div 12, m |-> ((total + 1) % 12) + 1,
                 d |-> date.d - DaysIn(y, m)]

\* time.Date(month.Year(), month.Month()+1, 1, ...).AddDate(0, 0, -1)
lastDayOfMonth(month) ==
    Yesterday(AddMonths([y |-> month.y, m |-> month.m, d |-> 1], 1))

\* fmt.Sprintf("%02d-%04d", int(startDate.Month()), startDate.Year())
PeriodKey(startDate) == <<startDate.m, startDate.y>>

\* the calendar month k months before the month of date, as <<month, year>>
MonthBefore(date, k) ==
    LET total == date.y * 12 + (date.m - 1) - k
    IN  <<(total % 12) + 1, total \div 12>>

CalInit ==
    /\ calToday \in CalendarStarts
    /\ calAdv = 0
    /\ calKind \in {"daily", "monthly"}
    /\ calN \in 0..(IF calKind = "daily" THEN LookbackDays ELSE MaxMonthLookBack)
    /\ calPc = "idle"
    /\ calStart = calToday
    /\ calI = 0
    /\ calDates = <<>>
    /\ calPeriods = <<>>
    /\ calSaved = {}

\* no date list is built
CalQuiescent ==
    /\ calToday = [y |-> 2024, m |-> 1, d |-> 15]
    /\ calAdv = 0
    /\ calKind = "daily"
    /\ calN = 0
    /\ calPc = "idle"
    /\ calStart = calToday
    /\ calI = 0
    /\ calDates = <<>>
    /\ calPeriods = <<>>
    /\ calSaved = {}

\* expires_in values given to CalculateTokenExpiration: around 0, around
\* half a day, around the one-day buffer, two days and sixty days
ExpiresInValues ==
    (0 - 5)..20 \cup 43195..43205 \cup 86390..86410 \cup {172799, 172800, 5184000}

ExpInit ==
    /\ expIn \in ExpiresInValues
    /\ expPc = "idle"
    /\ expOut = 0

\* CalculateTokenExpiration is not called on its own
ExpQuiescent ==
    /\ expIn = 0
    /\ expPc = "idle"
    /\ expOut = 0

\* an empty url.Values, over the keys the call uses in the order in which
\* Encode emits them (sorted by key)
ParamKeys == <<"access_token", "fields", "time_range">>
NoParams == [k \in {"access_token", "fields", "time_range"} |-> <<>>]

\* no insights request is made
ReqQuiescent ==
    /\ reqFilter = <<0, 0>>
    /\ reqParams = NoParams
    /\ reqToken = 1
    /\ reqPc = "idle"
    /\ reqSent = <<>>
    /\ reqExpired = {}

AuxQuiescent == CalQuiescent /\ ExpQuiescent /\ ReqQuiescent

\* the run starts (startTime := time.Now()) and has its account list
CalRunStart ==
    /\ calPc = "idle"
    /\ calStart' = calToday
    /\ calI' = IF calKind = "daily" THEN 0 ELSE 1
    /\ calPc' = IF calN = 0 THEN "built" ELSE "building"
    /\ UNCHANGED <<calToday, calAdv, calKind, calN, calDates, calPeriods, calSaved>>
    /\ UNCHANGED <<svars, tvars, cvars, rvars, wvars, mvars, pvars, evars, qvars>>

\* getDatesToProcess, one turn: dates[i] = time.Now().AddDate(0, 0, -i-1)
getDatesToProcessStep ==
    /\ calPc = "building"
    /\ calKind = "daily"
    /\ calDates' = Append(calDates, DaysBefore(calToday, calI + 1))
    /\ calI' = calI + 1
    /\ calPc' = IF calI + 1 < calN THEN "building" ELSE "built"
    /\ UNCHANGED <<calToday, calAdv, calKind, calN, calStart, calPeriods, calSaved>>
    /\ UNCHANGED <<svars, tvars, cvars, rvars, wvars, mvars, pvars, evars, qvars>>

\* a worker fetches a date of the list and SaveOrUpdate stores the record
\* under that date
CalSaveDate(j) ==
    /\ calPc = "built"
    /\ calKind = "daily"
    /\ j \in DOMAIN calDates
    /\ calDates[j] \notin calSaved
    /\ calSaved' = calSaved \cup {calDates[j]}
    /\ UNCHANGED <<calToday, calAdv, calKind, calN, calPc, calStart, calI, calDates,
                   calPeriods>>
    /\ UNCHANGED <<svars, tvars, cvars, rvars, wvars, mvars, pvars, evars, qvars>>

\* syncMonthlyInsights, one turn of 'for i := 1; i <= MonthLookBack; i++':
\* the period is computed from time.Now() and processMonthlyInsights stores
\* the records under the key of its first day
MonthlyPeriodStep ==
    /\ calPc = "building"
    /\ calKind = "monthly"
    /\ LET month == AddMonths(calToday, 0 - calI)
           firstDayOfMonth == [y |-> month.y, m |-> month.m, d |-> 1]
       IN  calPeriods' = Append(calPeriods,
                                [now |-> calToday, i |-> calI,
                                 first |-> firstDayOfMonth,
                                 last |-> lastDayOfMonth(month),
                                 period |-> PeriodKey(firstDayOfMonth)])
    /\ calI' = calI + 1
    /\ calPc' = IF calI < calN THEN "building" ELSE "built"
    /\ UNCHANGED <<calToday, calAdv, calKind, calN, calStart, calDates, calSaved>>
    /\ UNCHANGED <<svars, tvars, cvars, rvars, wvars, mvars, pvars, evars, qvars>>

\* midnight passes
CalMidnight ==
    /\ calAdv < MaxMidnights
    /\ calToday' = Tomorrow(calToday)
    /\ calAdv' = calAdv + 1
    /\ UNCHANGED <<calKind, calN, calPc, calStart, calI, calDates, calPeriods, calSaved>>
    /\ UNCHANGED <<svars, tvars, cvars, rvars, wvars, mvars, pvars, evars, qvars>>

CalNext ==
    \/ CalRunStart
    \/ getDatesToProcessStep
    \/ \E j \in 1..LookbackDays : CalSaveDate(j)
    \/ MonthlyPeriodStep
    \/ CalMidnight

(***************************************************************************)
(* Token manager: state and helpers                                        *)
(***************************************************************************)
\* refreshInterval := 23 * time.Hour, in seconds
RefreshIntervalSec == 82800
\* ticker.Reset(1 * time.Hour) after a failed refresh, in seconds
RetryIntervalSec == 3600
\* EnsureValidToken renews when less than 24 * time.Hour remain, in seconds
ProactiveWindowSec == 86400
\* buffer := int64(24 * 60 * 60) of CalculateTokenExpiration
ExpirationBufferSec == 86400

\* tokens the Meta token endpoint may hand out
UpstreamTokens == {"t1"}
\* expires_in values of the token endpoint: 2 hours, 2 days, 60 days
ExpiresInChoices == {7200, 172800, 5184000}

\* Go's integer division truncates toward zero
GoDiv(a, b) == IF a >= 0 THEN a \div b ELSE -((-a) \div b)

\* CalculateTokenExpiration: now + (expiresIn - buffer), or now + expiresIn/2
\* when the buffer would make it negative
CalculateTokenExpiration(expiresIn) ==
    LET safeExpiresIn == expiresIn - ExpirationBufferSec
    IN  tokNow + (IF safeExpiresIn < 0 THEN GoDiv(expiresIn, 2) ELSE safeExpiresIn)

\* time.Until(tm.cfg.Meta.TokenExpiresAt)
UntilExpiry == tokenExpiresAt - tokNow

\* a test against the 1-hour warning threshold of refreshTokenInternal instead
NeedsRefreshWrongWindow == UntilExpiry < RetryIntervalSec

\* EnsureValidToken: time.Until(TokenExpiresAt) < 24*time.Hour
NeedsRefresh == UntilExpiry < ProactiveWindowSec

TokenInit ==
    /\ accessToken \in {"", "cfg"}
    /\ longLivedToken \in {"", "cfg"}
    /\ tokenExpiresAt = 0
    /\ tokenMutex = -1
    /\ tokNow = 1000000
    /\ advances = 0
    /\ ppc = [p \in AllProcs |-> IF p = 0 THEN "bg_start" ELSE "idle"]
    /\ op = [p \in AllProcs |-> IF p = 0 THEN "loop" ELSE "none"]
    /\ stack = [p \in AllProcs |-> <<>>]
    /\ rres = [p \in AllProcs |-> "none"]
    /\ exch = [p \in AllProcs |-> 0]
    /\ dataReqs = [p \in AllProcs |-> 0]
    /\ hRefreshes = [p \in AllProcs |-> 0]
    /\ evSeen = [p \in AllProcs |-> [seen |-> FALSE, empty |-> FALSE, fresh |-> FALSE]]
    /\ tickerDue = 0
    /\ tickerInterval = 0
    /\ stopRefresh = FALSE
    /\ secretStore = ""
    /\ reauthSeen = FALSE
    /\ inBatch = [p \in AllProcs |-> FALSE]
    /\ refreshReturned = FALSE
    /\ initiated = FALSE

\* the token manager left alone: configured token, no caller, no loop
TokenQuiescent ==
    /\ accessToken = "cfg"
    /\ longLivedToken = "cfg"
    /\ tokenExpiresAt = 0
    /\ tokenMutex = -1
    /\ tokNow = 1000000
    /\ advances = 0
    /\ ppc = [p \in AllProcs |-> "idle"]
    /\ op = [p \in AllProcs |-> "none"]
    /\ stack = [p \in AllProcs |-> <<>>]
    /\ rres = [p \in AllProcs |-> "none"]
    /\ exch = [p \in AllProcs |-> 0]
    /\ dataReqs = [p \in AllProcs |-> 0]
    /\ hRefreshes = [p \in AllProcs |-> 0]
    /\ evSeen = [p \in AllProcs |-> [seen |-> FALSE, empty |-> FALSE, fresh |-> FALSE]]
    /\ tickerDue = 0
    /\ tickerInterval = 0
    /\ stopRefresh = FALSE
    /\ secretStore = ""
    /\ reauthSeen = FALSE
    /\ inBatch = [p \in AllProcs |-> FALSE]
    /\ refreshReturned = FALSE
    /\ initiated = FALSE

\* a call of p returns `result` to the position on top of p's stack
ReturnTo(p, result) ==
    /\ ppc' = [ppc EXCEPT ![p] = stack[p][Len(stack[p])]]
    /\ stack' = [stack EXCEPT ![p] = SubSeq(stack[p], 1, Len(stack[p]) - 1)]
    /\ rres' = [rres EXCEPT ![p] = result]
    /\ refreshReturned' = (refreshReturned \/
                            (op[p] = "refresh" /\ stack[p][Len(stack[p])] = "done"))
    /\ initiated' = (initiated \/
                      (ppc[p] \in {"it_lock", "it_wait"} /\ result = "ok"))

\* p calls the function starting at `entry`, to come back at `ret`
CallFrom(p, entry, ret) ==
    /\ ppc' = [ppc EXCEPT ![p] = entry]
    /\ stack' = [stack EXCEPT ![p] = Append(stack[p], ret)]


(***************************************************************************)
(* Token manager: operations                                               *)
(***************************************************************************)
\* a caller enters RefreshToken, EnsureValidToken or a Meta API call
\* (GetAdAccountInsightsByID / GetAdCampaignByAccountID / GetAdCampaignInsightsByID)
StartCall(p) ==
    /\ p \in Callers
    /\ ppc[p] = "idle"
    /\ \A q \in Callers : q < p => ppc[q] # "idle"
    /\ \E o \in {"refresh", "ensure", "api"} :
        /\ o = "api" => Cardinality({q \in Callers : op[q] = "api"}) < MaxApiCalls
        /\ op' = [op EXCEPT ![p] = o]
        /\ ppc' = [ppc EXCEPT ![p] = IF o = "refresh" THEN "rf_lock" ELSE "ev_check"]
        /\ stack' = [stack EXCEPT ![p] = IF o = "api" THEN <<"api_ensured">> ELSE <<"done">>]
        /\ inBatch' = [inBatch EXCEPT ![p] = (o = "refresh" /\ ~refreshReturned)]
    /\ UNCHANGED <<tokState, tokenMutex, tokClock, rres, tokLoop, secretStore,
                   exch, dataReqs, hRefreshes, evSeen, reauthSeen,
                   refreshReturned, initiated>>
    /\ UNCHANGED <<svars, cvars, rvars, wvars, mvars, pvars, xvars>>

\* refreshTokenInternal: TokenRefreshMutex.Lock(), then GetLongLivedToken sends
\* the exchange request; an empty token is refused before any request
RefreshLock(p) ==
    /\ ppc[p] = "rf_lock"
    /\ tokenMutex = -1
    /\ IF accessToken = ""
          THEN /\ ReturnTo(p, "error")
               /\ UNCHANGED <<tokenMutex, exch>>
          ELSE /\ tokenMutex' = p
               /\ exch' = [exch EXCEPT ![p] = @ + 1]
               /\ ppc' = [ppc EXCEPT ![p] = "rf_wait"]
               /\ UNCHANGED <<stack, rres, refreshReturned, initiated>>
    /\ UNCHANGED <<tokState, tokClock, op, tokLoop, secretStore,
                   dataReqs, hRefreshes, evSeen, reauthSeen, inBatch>>
    /\ UNCHANGED <<svars, cvars, rvars, wvars, mvars, pvars, xvars>>

\* refreshTokenInternal after the exchange answered: a new token and expiry,
\* the "session invalidated/expired" error, or another error; then Unlock
RefreshResponse(p) ==
    /\ ppc[p] = "rf_wait"
    /\ tokenMutex = p
    /\ tokenMutex' = -1
    /\ \/ \E tk \in UpstreamTokens, ei \in ExpiresInChoices :
            /\ longLivedToken' = tk
            /\ tokenExpiresAt' = CalculateTokenExpiration(ei)
            /\ accessToken' = tk
            /\ ReturnTo(p, "ok")
            /\ UNCHANGED reauthSeen
       \/ /\ reauthSeen' = TRUE
          /\ ReturnTo(p, "reauth")
          /\ UNCHANGED tokState
       \/ /\ ReturnTo(p, "error")
          /\ UNCHANGED <<tokState, reauthSeen>>
    /\ UNCHANGED <<tokClock, op, tokLoop, secretStore,
                   exch, dataReqs, hRefreshes, evSeen, inBatch>>
    /\ UNCHANGED <<svars, cvars, rvars, wvars, mvars, pvars, xvars>>

\* InitiateToken: Lock; return nil if a long-lived token exists; otherwise
\* GetLongLivedToken sends the exchange (an empty token is refused locally)
InitiateLock(p) ==
    /\ ppc[p] = "it_lock"
    /\ tokenMutex = -1
    /\ IF longLivedToken # ""
          THEN /\ ReturnTo(p, "ok")
               /\ UNCHANGED <<tokenMutex, exch>>
          ELSE IF accessToken = ""
          THEN /\ ReturnTo(p, "error")
               /\ UNCHANGED <<tokenMutex, exch>>
          ELSE /\ tokenMutex' = p
               /\ exch' = [exch EXCEPT ![p] = @ + 1]
               /\ ppc' = [ppc EXCEPT ![p] = "it_wait"]
               /\ UNCHANGED <<stack, rres, refreshReturned, initiated>>
    /\ UNCHANGED <<tokState, tokClock, op, tokLoop, secretStore,
                   dataReqs, hRefreshes, evSeen, reauthSeen, inBatch>>
    /\ UNCHANGED <<svars, cvars, rvars, wvars, mvars, pvars, xvars>>

\* InitiateToken after the exchange answered: store token and expiry and push
\* the secret, or return the error; then Unlock
InitiateResponse(p) ==
    /\ ppc[p] = "it_wait"
    /\ tokenMutex = p
    /\ tokenMutex' = -1
    /\ \/ \E tk \in UpstreamTokens, ei \in ExpiresInChoices :
            /\ longLivedToken' = tk
            /\ tokenExpiresAt' = CalculateTokenExpiration(ei)
            /\ accessToken' = tk
            /\ secretStore' = tk
            /\ ReturnTo(p, "ok")
       \/ /\ ReturnTo(p, "error")
          /\ UNCHANGED <<tokState, secretStore>>
    /\ UNCHANGED <<tokClock, op, tokLoop,
                   exch, dataReqs, hRefreshes, evSeen, reauthSeen, inBatch>>
    /\ UNCHANGED <<svars, cvars, rvars, wvars, mvars, pvars, xvars>>

\* EnsureValidToken: an empty access token goes to InitiateToken, less than
\* 24h of validity goes to RefreshToken, otherwise nil
EnsureCheck(p) ==
    /\ ppc[p] = "ev_check"
    /\ evSeen' = [evSeen EXCEPT ![p] = [seen |-> TRUE, empty |-> (accessToken = ""),
                                        fresh |-> (UntilExpiry >= ProactiveWindowSec)]]
    /\ exch' = [exch EXCEPT ![p] = 0]
    /\ IF accessToken = ""
          THEN /\ ppc' = [ppc EXCEPT ![p] = "it_lock"]
               /\ UNCHANGED <<stack, rres, refreshReturned, initiated>>
          ELSE IF NeedsRefresh
          THEN /\ ppc' = [ppc EXCEPT ![p] = "rf_lock"]
               /\ UNCHANGED <<stack, rres, refreshReturned, initiated>>
          ELSE ReturnTo(p, "ok")
    /\ UNCHANGED <<tokState, tokenMutex, tokClock, op, tokLoop, secretStore,
                   dataReqs, hRefreshes, reauthSeen, inBatch>>
    /\ UNCHANGED <<svars, cvars, rvars, wvars, mvars, pvars, xvars>>

\* Meta API call after EnsureValidToken returned: its error ends the call
ApiEnsured(p) ==
    /\ ppc[p] = "api_ensured"
    /\ ppc' = [ppc EXCEPT ![p] = IF rres[p] = "ok" THEN "api_request" ELSE "done"]
    /\ rres' = [rres EXCEPT ![p] = "none"]
    /\ UNCHANGED <<tokState, tokenMutex, tokClock, op, stack, tokLoop,
                   secretStore, tokHist, refreshReturned, initiated>>
    /\ UNCHANGED <<svars, cvars, rvars, wvars, mvars, pvars, xvars>>

\* client.Do(req): the data request is sent
ApiRequest(p) ==
    /\ ppc[p] = "api_request"
    /\ dataReqs[p] < MaxDataRequests
    /\ dataReqs' = [dataReqs EXCEPT ![p] = @ + 1]
    /\ ppc' = [ppc EXCEPT ![p] = "api_response"]
    /\ UNCHANGED <<tokState, tokenMutex, tokClock, op, stack, rres, tokLoop,
                   secretStore, exch, hRefreshes, evSeen, reauthSeen,
                   inBatch, refreshReturned, initiated>>
    /\ UNCHANGED <<svars, cvars, rvars, wvars, mvars, pvars, xvars>>

\* HandleResponse: 200, a transport error or another API error end the call;
\* a token-expiry signature makes handleExpiredToken call RefreshToken
ApiResponse(p) ==
    /\ ppc[p] = "api_response"
    /\ \/ /\ ppc' = [ppc EXCEPT ![p] = "done"]
          /\ UNCHANGED <<stack, hRefreshes>>
       \/ /\ CallFrom(p, "rf_lock", "api_refreshed")
          /\ hRefreshes' = [hRefreshes EXCEPT ![p] = @ + 1]
    /\ exch' = [exch EXCEPT ![p] = 0]
    /\ UNCHANGED <<tokState, tokenMutex, tokClock, op, rres, tokLoop,
                   secretStore, dataReqs, evSeen, reauthSeen,
                   inBatch, refreshReturned, initiated>>
    /\ UNCHANGED <<svars, cvars, rvars, wvars, mvars, pvars, xvars>>

\* handleExpiredToken after RefreshToken: "renovado, tente novamente" makes
\* the API function call itself again; a refresh error ends the call
ApiRefreshed(p) ==
    /\ ppc[p] = "api_refreshed"
    /\ IF rres[p] = "ok"
          THEN CallFrom(p, "ev_check", "api_ensured")
          ELSE /\ ppc' = [ppc EXCEPT ![p] = "done"]
               /\ UNCHANGED stack
    /\ rres' = [rres EXCEPT ![p] = "none"]
    /\ UNCHANGED <<tokState, tokenMutex, tokClock, op, tokLoop,
                   secretStore, tokHist, refreshReturned, initiated>>
    /\ UNCHANGED <<svars, cvars, rvars, wvars, mvars, pvars, xvars>>

\* StartAutoRefresh: tm.InitiateToken()
LoopStart ==
    /\ ppc[0] = "bg_start"
    /\ CallFrom(0, "it_lock", "bg_ticker")
    /\ UNCHANGED <<tokState, tokenMutex, tokClock, op, rres, tokLoop,
                   secretStore, tokHist, refreshReturned, initiated>>
    /\ UNCHANGED <<svars, cvars, rvars, wvars, mvars, pvars, xvars>>

\* StartAutoRefresh: ticker := time.NewTicker(23 * time.Hour)
LoopNewTicker ==
    /\ ppc[0] = "bg_ticker"
    /\ tickerInterval' = RefreshIntervalSec
    /\ tickerDue' = tokNow + RefreshIntervalSec
    /\ ppc' = [ppc EXCEPT ![0] = "bg_select"]
    /\ UNCHANGED <<tokState, tokenMutex, tokClock, op, stack, rres, stopRefresh,
                   secretStore, tokHist, refreshReturned, initiated>>
    /\ UNCHANGED <<svars, cvars, rvars, wvars, mvars, pvars, xvars>>

\* case <-ticker.C: tm.RefreshToken()
LoopTick ==
    /\ ppc[0] = "bg_select"
    /\ tokNow >= tickerDue
    /\ tickerDue' = tickerDue + tickerInterval
    /\ CallFrom(0, "rf_lock", "bg_refreshed")
    /\ exch' = [exch EXCEPT ![0] = 0]
    /\ UNCHANGED <<tokState, tokenMutex, tokClock, op, rres, tickerInterval,
                   stopRefresh, secretStore, dataReqs, hRefreshes, evSeen,
                   reauthSeen, inBatch, refreshReturned, initiated>>
    /\ UNCHANGED <<svars, cvars, rvars, wvars, mvars, pvars, xvars>>

\* a variant that never shortens the period
ResetIntervalAlwaysNormal(result) == RefreshIntervalSec

\* the period given to ticker.Reset after the periodic refresh returned
ResetInterval(result) ==
    IF result = "ok" THEN RefreshIntervalSec ELSE RetryIntervalSec

\* after the periodic refresh: on error ticker.Reset(1h); on success push the
\* secret and ticker.Reset(23h)
LoopRefreshed ==
    /\ ppc[0] = "bg_refreshed"
    /\ secretStore' = IF rres[0] = "ok" THEN accessToken ELSE secretStore
    /\ tickerInterval' = ResetInterval(rres[0])
    /\ tickerDue' = tokNow + ResetInterval(rres[0])
    /\ ppc' = [ppc EXCEPT ![0] = "bg_select"]
    /\ rres' = [rres EXCEPT ![0] = "none"]
    /\ UNCHANGED <<tokState, tokenMutex, tokClock, op, stack, stopRefresh,
                   tokHist, refreshReturned, initiated>>
    /\ UNCHANGED <<svars, cvars, rvars, wvars, mvars, pvars, xvars>>

\* case <-tm.stopRefresh: return
LoopStop ==
    /\ ppc[0] = "bg_select"
    /\ stopRefresh
    /\ ppc' = [ppc EXCEPT ![0] = "stopped"]
    /\ UNCHANGED <<tokState, tokenMutex, tokClock, op, stack, rres, tokLoop,
                   secretStore, tokHist, refreshReturned, initiated>>
    /\ UNCHANGED <<svars, cvars, rvars, wvars, mvars, pvars, xvars>>

\* StopAutoRefresh: close(tm.stopRefresh)
StopAutoRefresh ==
    /\ ~stopRefresh
    /\ stopRefresh' = TRUE
    /\ UNCHANGED <<tokState, tokenMutex, tokClock, ppc, op, stack, rres,
                   tickerDue, tickerInterval, secretStore, tokHist, refreshReturned, initiated>>
    /\ UNCHANGED <<svars, cvars, rvars, wvars, mvars, pvars, xvars>>

\* time passes: one hour or one refresh interval
AdvanceTokenClock ==
    /\ advances < MaxAdvances
    /\ advances' = advances + 1
    /\ \E d \in {RetryIntervalSec, RefreshIntervalSec} : tokNow' = tokNow + d
    /\ UNCHANGED <<tokState, tokenMutex, ppc, op, stack, rres, tokLoop,
                   secretStore, tokHist, refreshReturned, initiated>>
    /\ UNCHANGED <<svars, cvars, rvars, wvars, mvars, pvars, xvars>>

\* time passes for the refresh loop: one hour or one refresh interval
AdvanceLoopClock ==
    /\ advances < MaxLoopAdvances
    /\ advances' = advances + 1
    /\ \E d \in {RetryIntervalSec, RefreshIntervalSec} : tokNow' = tokNow + d
    /\ UNCHANGED <<tokState, tokenMutex, ppc, op, stack, rres, tokLoop,
                   secretStore, tokHist, refreshReturned, initiated>>
    /\ UNCHANGED <<svars, cvars, rvars, wvars, mvars, pvars, xvars>>

TokenSpecInit == SyncInit /\ job = "meta" /\ TokenInit /\ CacheQuiescent /\ RankQuiescent /\ WorkerQuiescent
    /\ CombineQuiescent /\ PoolQuiescent /\ AuxQuiescent

TokenNext ==
    \/ \E p \in AllProcs :
        \/ StartCall(p)
        \/ RefreshLock(p)
        \/ RefreshResponse(p)
        \/ InitiateLock(p)
        \/ InitiateResponse(p)
        \/ EnsureCheck(p)
        \/ ApiEnsured(p)
        \/ ApiRequest(p)
        \/ ApiResponse(p)
        \/ ApiRefreshed(p)
    \/ LoopStart
    \/ LoopNewTicker
    \/ LoopTick
    \/ LoopRefreshed
    \/ LoopStop
    \/ StopAutoRefresh
    \/ AdvanceTokenClock

TokenSpec == TokenSpecInit /\ [][TokenNext]_vars

(***************************************************************************)
(* Token manager at startup: InitToken and ValidateExistingToken           *)
(***************************************************************************)
\* the configuration InitToken finds: an access token, with or without a
\* long-lived token and a known expiry
InitTokenInit ==
    /\ accessToken = "cfg"
    /\ longLivedToken \in {"", "cfg"}
    /\ tokenExpiresAt \in {0, 1000000 + 5184000}
    /\ tokenMutex = -1
    /\ tokNow = 1000000
    /\ advances = 0
    /\ ppc = [p \in AllProcs |-> "idle"]
    /\ op = [p \in AllProcs |-> "none"]
    /\ stack = [p \in AllProcs |-> <<>>]
    /\ rres = [p \in AllProcs |-> "none"]
    /\ exch = [p \in AllProcs |-> 0]
    /\ dataReqs = [p \in AllProcs |-> 0]
    /\ hRefreshes = [p \in AllProcs |-> 0]
    /\ evSeen = [p \in AllProcs |-> [seen |-> FALSE, empty |-> FALSE, fresh |-> FALSE]]
    /\ tickerDue = 0
    /\ tickerInterval = 0
    /\ stopRefresh = FALSE
    /\ secretStore = ""
    /\ reauthSeen = FALSE
    /\ inBatch = [p \in AllProcs |-> FALSE]
    /\ refreshReturned = FALSE
    /\ initiated = FALSE

\* InitToken: no long-lived token goes to InitiateToken, a long-lived token
\* of unknown expiry to ValidateExistingToken, otherwise EnsureValidToken
InitToken(p) ==
    /\ p = 1
    /\ ppc[p] = "idle"
    /\ op[p] = "none"
    /\ op' = [op EXCEPT ![p] = "init"]
    /\ IF longLivedToken = "" THEN CallFrom(p, "it_lock", "done")
       ELSE IF tokenExpiresAt = 0 THEN CallFrom(p, "vt_lock", "init_validated")
       ELSE CallFrom(p, "ev_check", "done")
    /\ UNCHANGED <<tokState, tokenMutex, tokClock, rres, tokLoop, secretStore,
                   tokHist, refreshReturned, initiated>>
    /\ UNCHANGED <<svars, cvars, rvars, wvars, mvars, pvars, xvars>>

\* ValidateExistingToken: TokenRefreshMutex.Lock() (Unlock is deferred), then
\* CheckTokenValidity sends its request
ValidateLock(p) ==
    /\ ppc[p] = "vt_lock"
    /\ tokenMutex = -1
    /\ tokenMutex' = p
    /\ ppc' = [ppc EXCEPT ![p] = "vt_check"]
    /\ UNCHANGED <<tokState, tokClock, op, stack, rres, tokLoop, secretStore,
                   tokHist, refreshReturned, initiated>>
    /\ UNCHANGED <<svars, cvars, rvars, wvars, mvars, pvars, xvars>>

\* CheckTokenValidity answered: an error is returned; an invalid token goes
\* to 'return tm.refreshTokenInternal()', called with the mutex held; a valid
\* one to GetDebugTokenInfo
ValidateCheck(p) ==
    /\ ppc[p] = "vt_check"
    /\ tokenMutex = p
    /\ \/ /\ rres' = [rres EXCEPT ![p] = "error"]
          /\ ppc' = [ppc EXCEPT ![p] = "vt_unlock"]
          /\ UNCHANGED stack
       \/ /\ CallFrom(p, "rf_lock", "vt_unlock")
          /\ UNCHANGED rres
       \/ /\ ppc' = [ppc EXCEPT ![p] = "vt_debug"]
          /\ UNCHANGED <<stack, rres>>
    /\ UNCHANGED <<tokState, tokenMutex, tokClock, op, tokLoop, secretStore,
                   tokHist, refreshReturned, initiated>>
    /\ UNCHANGED <<svars, cvars, rvars, wvars, mvars, pvars, xvars>>

\* GetDebugTokenInfo answered: with data.expires_at the expiry is set to it
\* minus 24 hours and the access token to the long-lived token; an error or
\* an answer without expires_at is returned as an error
ValidateDebug(p) ==
    /\ ppc[p] = "vt_debug"
    /\ tokenMutex = p
    /\ \/ \E ei \in ExpiresInChoices :
            /\ tokenExpiresAt' = (tokNow + ei) - 86400
            /\ accessToken' = longLivedToken
            /\ UNCHANGED longLivedToken
            /\ rres' = [rres EXCEPT ![p] = "ok"]
       \/ /\ rres' = [rres EXCEPT ![p] = "error"]
          /\ UNCHANGED tokState
    /\ ppc' = [ppc EXCEPT ![p] = "vt_unlock"]
    /\ UNCHANGED <<tokenMutex, tokClock, op, stack, tokLoop, secretStore,
                   tokHist, refreshReturned, initiated>>
    /\ UNCHANGED <<svars, cvars, rvars, wvars, mvars, pvars, xvars>>

\* ValidateExistingToken returns: the deferred Unlock runs
ValidateReturn(p) ==
    /\ ppc[p] = "vt_unlock"
    /\ tokenMutex = p
    /\ tokenMutex' = -1
    /\ ReturnTo(p, rres[p])
    /\ UNCHANGED <<tokState, tokClock, op, tokLoop, secretStore, tokHist>>
    /\ UNCHANGED <<svars, cvars, rvars, wvars, mvars, pvars, xvars>>

\* InitToken after ValidateExistingToken: an error goes to RefreshToken
InitValidated(p) ==
    /\ ppc[p] = "init_validated"
    /\ IF rres[p] = "ok"
          THEN /\ ppc' = [ppc EXCEPT ![p] = "done"]
               /\ UNCHANGED stack
          ELSE CallFrom(p, "rf_lock", "done")
    /\ UNCHANGED <<tokState, tokenMutex, tokClock, op, rres, tokLoop, secretStore,
                   tokHist, refreshReturned, initiated>>
    /\ UNCHANGED <<svars, cvars, rvars, wvars, mvars, pvars, xvars>>

\* another goroutine calls RefreshToken or InitiateToken after InitToken
\* was entered
LaterTokenCall(p) ==
    /\ p \in Callers \ {1}
    /\ ppc[p] = "idle"
    /\ ppc[1] # "idle"
    /\ \E o \in {"refresh", "initiate"} :
        /\ op' = [op EXCEPT ![p] = o]
        /\ CallFrom(p, IF o = "refresh" THEN "rf_lock" ELSE "it_lock", "done")
    /\ UNCHANGED <<tokState, tokenMutex, tokClock, rres, tokLoop, secretStore,
                   tokHist, refreshReturned, initiated>>
    /\ UNCHANGED <<svars, cvars, rvars, wvars, mvars, pvars, xvars>>

InitTokenNext ==
    \E p \in Callers :
        \/ InitToken(p)
        \/ ValidateLock(p)
        \/ ValidateCheck(p)
        \/ ValidateDebug(p)
        \/ ValidateReturn(p)
        \/ InitValidated(p)
        \/ LaterTokenCall(p)
        \/ RefreshLock(p)
        \/ RefreshResponse(p)
        \/ InitiateLock(p)
        \/ InitiateResponse(p)
        \/ EnsureCheck(p)

InitTokenSpecInit ==
    SyncInit /\ job = "meta" /\ InitTokenInit /\ CacheQuiescent /\ RankQuiescent
    /\ WorkerQuiescent /\ CombineQuiescent /\ PoolQuiescent /\ AuxQuiescent

InitTokenSpec == InitTokenSpecInit /\ [][InitTokenNext]_vars

\* positions at which a goroutine waits for TokenRefreshMutex
MutexWaits == {"rf_lock", "it_lock", "vt_lock"}

\* C39: ValidateExistingToken, and so InitToken, always returns: when the
\* validity check reports the token invalid, the refresh it falls back to
\* completes and the mutex is released, so that no goroutine, the caller or
\* a later RefreshToken/InitiateToken, waits for ever for a mutex whose
\* holder is itself waiting for it.
C39_ValidateExistingTokenReturns ==
    \A p \in Callers : ppc[p] \in MutexWaits => tokenMutex # p

\* the refresh loop alone (go tokenManager.StartAutoRefresh() in main), over
\* several ticker periods
LoopNext ==
    \/ LoopStart
    \/ InitiateLock(0)
    \/ InitiateResponse(0)
    \/ LoopNewTicker
    \/ LoopTick
    \/ RefreshLock(0)
    \/ RefreshResponse(0)
    \/ LoopRefreshed
    \/ LoopStop
    \/ StopAutoRefresh
    \/ AdvanceLoopClock

LoopSpec == TokenSpecInit /\ [][LoopNext]_vars


(***************************************************************************)
(* Token manager: properties                                               *)
(***************************************************************************)
\* C4: N >= 2 concurrent RefreshToken calls, all started before any of them
\* returns, result in exactly one upstream token exchange (GetLongLivedToken).
\* Stated for a non-empty access token, once every call of the batch returned.
C4_ConcurrentRefreshOneExchange ==
    LET batch == {p \in Callers : inBatch[p]}
    IN  (/\ accessToken # ""
         /\ Cardinality(batch) >= 2
         /\ \A p \in batch : ppc[p] = "done")
        => /\ \A p \in batch : exch[p] <= 1
           /\ Cardinality({p \in batch : exch[p] = 1}) = 1

\* C5 as written: an EnsureValidToken call that has returned made zero
\* exchanges if the expiry it read was at least 24h ahead, and exactly one
\* exchange if it was less than 24h ahead.
C5_EnsureExchangesByExpiryOnly ==
    \A p \in Callers :
        (evSeen[p].seen /\ (ppc[p] = "api_ensured" \/ (op[p] = "ensure" /\ ppc[p] = "done")))
        => IF evSeen[p].fresh THEN exch[p] = 0 ELSE exch[p] = 1

\* C5, amended: with a non-empty access token, an EnsureValidToken call that
\* has returned made zero exchanges if the expiry it read was at least 24h
\* ahead and exactly one if it was less than 24h ahead (a never-set expiry
\* included); with an empty access token it goes to InitiateToken and makes
\* no exchange at all.
C5_EnsureExchanges ==
    \A p \in Callers :
        (evSeen[p].seen /\ (ppc[p] = "api_ensured" \/ (op[p] = "ensure" /\ ppc[p] = "done")))
        => IF evSeen[p].empty \/ evSeen[p].fresh THEN exch[p] = 0 ELSE exch[p] = 1

\* two EnsureValidToken calls have returned: one read an expiry less than 24h
\* ahead and sent one exchange, the other read the renewed expiry and sent none
C5_Witness ==
    \E p, q \in Callers :
        /\ op[p] = "ensure" /\ ppc[p] = "done" /\ rres[p] = "ok"
        /\ ~evSeen[p].empty /\ ~evSeen[p].fresh /\ exch[p] = 1
        /\ op[q] = "ensure" /\ ppc[q] = "done" /\ rres[q] = "ok"
        /\ ~evSeen[q].empty /\ evSeen[q].fresh /\ exch[q] = 0

\* C6: a Meta API call whose response matches a token-expiry signature and
\* whose refresh succeeds is re-issued exactly once: one top-level call makes
\* at most two data requests and triggers at most one refresh.
C6_RetryAtMostOnce ==
    \A p \in Callers :
        op[p] = "api" => (dataReqs[p] <= 2 /\ hRefreshes[p] <= 1)

\* C7: once a refresh has received the "session invalidated/expired" signal,
\* no later step sends a token exchange or changes the stored token.
C7_NoExchangeAfterReauth ==
    [][reauthSeen =>
        /\ ~(\E p \in AllProcs : /\ ppc[p] \in {"rf_lock", "it_lock"}
                                 /\ ppc'[p] \in {"rf_wait", "it_wait"})
        /\ accessToken' = accessToken
        /\ longLivedToken' = longLivedToken]_vars

CacheSpecInit == SyncInit /\ job = "meta" /\ TokenQuiescent /\ CacheInit /\ RankQuiescent /\ WorkerQuiescent
    /\ CombineQuiescent /\ PoolQuiescent /\ AuxQuiescent

CacheSpec == CacheSpecInit /\ [][CacheNext]_vars

(***************************************************************************)
(* Cache-fill: properties                                                  *)
(***************************************************************************)
\* C17: once InitiateToken has returned nil the access token is non-empty in
\* every state that follows, whatever RefreshToken / EnsureValidToken calls
\* succeed or fail; and a refresh that fails leaves access token, long-lived
\* token and expiry as they were.
C17_TokenNonEmptyOnceInitialized ==
    [][/\ initiated' => accessToken' # ""
       /\ \A p \in AllProcs :
            (ppc[p] = "rf_wait" /\ ppc'[p] # "rf_wait" /\ rres'[p] # "ok")
            => UNCHANGED tokState]_vars

\* C18: whenever a refresh starts its exchange, the token stored by the last
\* successful exchange has already been pushed to the secret store.
C18_SecretPushedBeforeNextRefresh ==
    ((\E p \in AllProcs : ppc[p] = "rf_wait") /\ accessToken \in UpstreamTokens)
    => secretStore = accessToken

\* C19: the loop calls RefreshToken only on a due tick, once per tick; when
\* the refresh returned an error the ticker is reset to 1h from then, and
\* when it returned nil to 23h from then; after the loop received the stop
\* signal it stays stopped and starts no refresh.
C19_LoopTicksAndBackoff ==
    [][/\ (ppc[0] # "rf_lock" /\ ppc'[0] = "rf_lock")
            => (ppc[0] = "bg_select" /\ tokNow >= tickerDue /\ Len(stack'[0]) = 1)
       /\ (ppc[0] = "bg_refreshed" /\ ppc'[0] # "bg_refreshed")
            => /\ ppc'[0] = "bg_select"
               /\ tickerDue' = tokNow + (IF rres[0] = "ok" THEN 82800 ELSE 3600)
               /\ tickerInterval' = (IF rres[0] = "ok" THEN 82800 ELSE 3600)
       /\ (ppc[0] = "bg_select" /\ ppc'[0] = "stopped") => stopRefresh
       /\ ppc[0] = "stopped" => (ppc'[0] = "stopped" /\ exch'[0] = exch[0])]_vars

\* the tick after 23h failed with "session invalidated", the next tick came
\* one hour later and its refresh succeeded: the token was pushed and the
\* ticker is back to 23h
C19_Witness ==
    /\ ppc[0] = "bg_select"
    /\ reauthSeen
    /\ tokNow = 1000000 + 82800 + 3600
    /\ accessToken \in UpstreamTokens /\ secretStore = accessToken
    /\ tickerInterval = 82800
    /\ tickerDue = tokNow + 82800

\* C8: a cache-fill call whose range includes the calendar day that is today
\* when the call starts never upserts a record dated that day, under any
\* interleaving of fetch completions with the advance of the clock.
C8_TodayNeverUpserted ==
    (cpc # "idle" /\ callDay \in generateDateRange(cStart, cEnd))
        => saves[callDay] # "ok"

C11_PositionsContiguous ==
    rpc = "idle" =>
        \A m \in RankMonths :
            LET rows == {a \in Accounts : rankStore[<<a, m>>] # NoRow}
            IN  {rankStore[<<a, m>>].position : a \in rows} = 1..Cardinality(rows)

\* C12: for accounts with pairwise distinct revenues, all fetched, and no
\* prior row for the month, a run returns them in strictly descending revenue
\* order with position = index + 1, positionChange = 0, previousPosition = 0.
C12_FirstRankingByRevenue ==
    \A k \in 1..Len(rhist) :
        LET r == rhist[k]
            month == MonthKey(Yesterday(r.date))
            listed == {r.accounts[i] : i \in DOMAIN r.accounts}
        IN  (/\ \A a \in listed : r.fetch[a] = "sent" /\ r.start[<<a, month>>] = NoRow
             /\ \A a, b \in listed : a # b => r.fetched[a] # r.fetched[b])
            => /\ Len(r.result) = Len(r.accounts)
               /\ {r.result[i].account : i \in DOMAIN r.result} = listed
               /\ \A i \in DOMAIN r.result :
                    /\ r.result[i].revenue = r.fetched[r.result[i].account]
                    /\ r.result[i].position = i
                    /\ r.result[i].positionChange = 0
                    /\ r.result[i].previousPosition = 0
               /\ \A i, j \in DOMAIN r.result :
                    i < j => r.result[i].revenue > r.result[j].revenue

\* a run on accounts <<1, 2>> with no prior rows, where account 2 has the
\* greater revenue, returned account 2 first
C12_Witness ==
    \E k \in 1..Len(rhist) :
        /\ rhist[k].accounts = <<1, 2>>
        /\ \A a \in {1, 2} : rhist[k].start[<<a, MonthKey(Yesterday(rhist[k].date))>>] = NoRow
        /\ rhist[k].fetched[1] = 1000 /\ rhist[k].fetched[2] = 2500
        /\ Len(rhist[k].result) = 2
        /\ rhist[k].result[1].account = 2 /\ rhist[k].result[1].position = 1
        /\ rhist[k].result[2].account = 1 /\ rhist[k].result[2].position = 2

\* C13: for every account whose persisted row for the month was read by the
\* run, the new row has previousPosition = that row's position and
\* positionChange = previousPosition - new position.
C13_ChangeAgainstPersistedRow ==
    \A k \in 1..Len(rhist) :
        LET r == rhist[k]
            month == MonthKey(Yesterday(r.date))
        IN  \A i \in DOMAIN r.result :
                LET it == r.result[i]
                IN  r.lookup[it.account] = "found"
                    => /\ it.previousPosition = r.start[<<it.account, month>>].position
                       /\ it.positionChange = it.previousPosition - it.position

\* two accounts swapped positions 1 and 2: the riser got +1, the other -1
C13_Witness ==
    \E k \in 1..Len(rhist) :
        /\ Len(rhist[k].result) = 2
        /\ rhist[k].result[1].previousPosition = 2
        /\ rhist[k].result[1].positionChange = 1
        /\ rhist[k].result[2].previousPosition = 1
        /\ rhist[k].result[2].positionChange = -1

\* C14: two runs in a row for the same reference date on unchanged source
\* transactions, the first one's upsert having succeeded: the second run
\* gives every account the same revenue and position, and positionChange = 0,
\* equal revenues included.
C14_RerunUnchanged ==
    \A k \in 2..Len(rhist) :
        LET r1 == rhist[k-1]
            r2 == rhist[k]
        IN  (/\ r1.date = r2.date /\ r1.accounts = r2.accounts
             /\ r1.saveOk
             /\ r1.fetch = r2.fetch /\ r1.fetched = r2.fetched)
            => /\ Len(r2.result) = Len(r1.result)
               /\ \A i \in DOMAIN r2.result :
                    /\ r2.result[i].account = r1.result[i].account
                    /\ r2.result[i].revenue = r1.result[i].revenue
                    /\ r2.result[i].positionChange = 0

C16_FailedFetchesLeftOut ==
    \A k \in 1..Len(rhist) :
        LET r == rhist[k]
            sent == {a \in Accounts : r.fetch[a] = "sent"}
        IN  /\ {r.result[i].account : i \in DOMAIN r.result} = sent
            /\ Len(r.result) = Cardinality(sent)
            /\ \A i \in DOMAIN r.result : r.result[i].position = i
            /\ r.saveCalls = 1 /\ r.saved = r.result
            /\ r.saveOk =>
                \A i \in DOMAIN r.result :
                    LET row == r.stored[<<r.result[i].account, r.result[i].month>>]
                    IN  /\ row.position = r.result[i].position
                        /\ row.revenue = r.result[i].revenue

\* the fetch of account 1 failed and the one of account 2 succeeded: the
\* result is account 2 alone at position 1, and it was saved
C16_Witness ==
    \E k \in 1..Len(rhist) :
        /\ rhist[k].accounts = <<1, 2>>
        /\ rhist[k].fetch[1] = "failed" /\ rhist[k].fetch[2] = "sent"
        /\ Len(rhist[k].result) = 1
        /\ rhist[k].result[1].account = 2 /\ rhist[k].result[1].position = 1
        /\ rhist[k].saveOk
        /\ rhist[k].stored[<<2, rhist[k].result[1].month>>].position = 1

\* C20: after the process context is cancelled, an active sync run starts no
\* new account worker and sends no new per-date fetch.
C20_NoNewWorkAfterCancel ==
    lateWorkers = {} /\ lateFetches = {}

\* C23: combineAdMetrics gives the same totals (impressions, reach, result,
\* spend), the same ResultByDate and CostPerResultByDate maps and the same
\* per-campaign sums for every permutation of a list of records with non-nil
\* metrics and distinct dates.
C23_CombineOrderIndependent ==
    cmbPc = "done" => cmbOutP = cmbOut

\* C24: within one run, each account's fetches are issued in strictly
\* increasing date order, and a worker that has finished fetched each date
\* of the lookback list exactly once, whatever the other workers do.
C24_DatesInOrderOncePerAccount ==
    \A a \in SyncAccounts :
        /\ \A i, k \in DOMAIN wfetched[a] :
                i < k => wfetched[a][i].date < wfetched[a][k].date
        /\ wstate[a] = "done" =>
                [i \in DOMAIN wfetched[a] |-> wfetched[a][i].date]
                    = [i \in 1..cfgLookback |-> i]

\* C25: the account workers executing at the same time are never more than
\* config.MaxConcurrentJobs, and the run is not back to Idle while a worker
\* it started has not finished.
C25_BoundedWorkersAndJoin ==
    /\ Cardinality({a \in SyncAccounts : wstate[a] \in ActivePcs}) <= cfgMaxJobs
    /\ mpc = "idle" => \A a \in SyncAccounts : wstate[a] \in {"none", "done"}

\* both slots are taken by the workers of accounts 1 and 2, one of them in a
\* fetch, while the run's loop waits with account 3
C25_Witness ==
    /\ cfgMaxJobs = 2 /\ eligible = SyncAccounts
    /\ mpc = "loop" /\ nextAccount = 3
    /\ semaphore = 2
    /\ wstate[1] = "fetching" /\ wstate[2] \in ActivePcs
    /\ wstate[3] = "none"

\* C27: in a run, a worker that has finished has fetched every lookback date
\* exactly once for its account, whatever the outcomes of the fetches, and a
\* pair whose fetch or save failed was not fetched again and has no record
\* saved by the run.
C27_EveryPairFetchedOnce ==
    \A a \in SyncAccounts :
        /\ wstate[a] = "done" =>
            \A d \in 1..cfgLookback :
                Cardinality({i \in DOMAIN wfetched[a] : wfetched[a][i].date = d}) = 1
        /\ \A i \in DOMAIN wfetched[a] :
            wfetched[a][i].outcome = "error" =>
                \A k \in DOMAIN wfetched[a] :
                    k # i => wfetched[a][k].date # wfetched[a][i].date

\* C29: a run never crashes the process and is never blocked for good, for
\* every value of maxConcurrentJobs and lookbackDays, 0 included.
C29_RunNeverCrashesNorBlocks ==
    mpc # "crashed" /\ ~RunBlocked

\* every goroutine of the call has finished: the call is about to return
\* adInsights, and the table is as the call leaves it
CallFinished ==
    cpc = "wait" /\ \A d \in Days : task[d] \in {"none", "done", "failed"}

C26_OneTaskPerDateAtMostFiveInFlight ==
    /\ PoolInFlight <= maxConcurrent
    /\ \A d \in MissingIdx : poolLaunched[d] <= 1 /\ poolFetches[d] <= 1
    /\ poolPc = "returned" =>
        \A d \in MissingIdx :
            IF d <= poolMissing
               THEN /\ poolLaunched[d] = 1 /\ poolFetches[d] = 1
                    /\ poolTask[d] \in {"done", "failed"}
               ELSE poolLaunched[d] = 0 /\ poolFetches[d] = 0

\* a call with more than five missing dates returned, after all five slots
\* had been taken at one time
C26_Witness ==
    /\ poolPc = "returned"
    /\ poolMissing > maxConcurrent
    /\ poolPeak = maxConcurrent
    /\ \E d \in MissingIdx : poolTask[d] = "failed"

PoolSpecInit ==
    SyncInit /\ job = "meta" /\ TokenQuiescent /\ CacheQuiescent /\ RankQuiescent
    /\ WorkerQuiescent /\ CombineQuiescent /\ PoolInit /\ AuxQuiescent

PoolSpec == PoolSpecInit /\ [][PoolNext]_vars

\* C31: the list a daily job builds holds exactly lookbackDays consecutive
\* calendar days ending at yesterday; the day that is today when the run
\* starts is not in the list, and no record dated that day is upserted.
C31_LookbackEndsYesterday ==
    (calKind = "daily" /\ calPc = "built") =>
        /\ Len(calDates) = calN
        /\ \A i \in DOMAIN calDates : calDates[i] = DaysBefore(calStart, i)
        /\ \A i \in DOMAIN calDates : calDates[i] # calStart
        /\ calStart \notin calSaved

\* C32: the i-th period of the monthly job is the calendar month i months
\* before the current month, from its first to its last day, stored under
\* that month's key, and the periods of a run are pairwise distinct.
C32_MonthlyPeriodsAreThePreviousMonths ==
    /\ \A k \in DOMAIN calPeriods :
        LET p == calPeriods[k]
            mon == MonthBefore(p.now, p.i)
        IN  /\ p.first = [y |-> mon[2], m |-> mon[1], d |-> 1]
            /\ p.last = [y |-> mon[2], m |-> mon[1], d |-> DaysIn(mon[2], mon[1])]
            /\ p.period = mon
    /\ \A k, l \in DOMAIN calPeriods : k # l => calPeriods[k].period # calPeriods[l].period

CalSpecInit ==
    SyncInit /\ job = "meta" /\ TokenQuiescent /\ CacheQuiescent /\ RankQuiescent
    /\ WorkerQuiescent /\ CombineQuiescent /\ PoolQuiescent /\ CalInit /\ ExpQuiescent /\ ReqQuiescent

CalSpec == CalSpecInit /\ [][CalNext]_vars

\* the call of CalculateTokenExpiration(expIn) at the instant tokNow
CalculateTokenExpirationCall ==
    /\ expPc = "idle"
    /\ expOut' = CalculateTokenExpiration(expIn)
    /\ expPc' = "returned"
    /\ UNCHANGED expIn
    /\ UNCHANGED <<svars, tvars, cvars, rvars, wvars, mvars, pvars, dvars, qvars>>

\* C33: CalculateTokenExpiration(expiresIn) is now + (expiresIn - 86400)
\* seconds when expiresIn - 86400 >= 0 and now + expiresIn/2 (integer
\* division) otherwise; for every expiresIn > 0 the result is strictly after
\* now and not after the real expiry now + expiresIn.
C33_ExpirationAfterNowNotAfterExpiry ==
    expPc = "returned" =>
        /\ expOut = IF expIn - 86400 >= 0
                       THEN tokNow + (expIn - 86400)
                       ELSE tokNow + GoDiv(expIn, 2)
        /\ expIn > 0 => (expOut > tokNow /\ expOut <= tokNow + expIn)

ExpSpecInit ==
    SyncInit /\ job = "meta" /\ TokenQuiescent /\ CacheQuiescent /\ RankQuiescent
    /\ WorkerQuiescent /\ CombineQuiescent /\ PoolQuiescent /\ CalQuiescent /\ ExpInit /\ ReqQuiescent

ExpSpec == ExpSpecInit /\ [][CalculateTokenExpirationCall]_vars

\* the sum of the values of a per-date map
RECURSIVE SumOfMap(_, _)
SumOfMap(f, ks) ==
    IF ks = {} THEN 0
    ELSE LET k == CHOOSE x \in ks : TRUE IN f[k] + SumOfMap(f, ks \ {k})

\* C34: for records with pairwise distinct dates, the per-date maps of the
\* aggregate hold, for every record, that record's result and that record's
\* cost per result under its date, and the total result is the sum of the
\* ResultByDate values.
C34_PerDateMapsHoldEachRecord ==
    cmbPc \in {"combined", "done"} =>
        /\ \A i \in DOMAIN cmbIn :
            /\ cmbOut.resultByDate[cmbIn[i].date] = cmbIn[i].result
            /\ cmbOut.costPerResultByDate[cmbIn[i].date] = cmbIn[i].costPerResult
        /\ cmbOut.result = SumOfMap(cmbOut.resultByDate, DOMAIN cmbOut.resultByDate)

\* the records of a list that have metrics, in the order of the list
WithMetrics(l) == SelectSeq(l, LAMBDA r : ~r.nilMetrics)

\* C35: for a list with at least one record with metrics, combineAdMetrics
\* completes, takes the name from the first record that has metrics, and its
\* sums are those of the records with metrics alone, wherever the records
\* with nil metrics are in the list.
C35_NilMetricsIgnored ==
    /\ cmbPc # "panicked"
    /\ cmbPc = "combined" =>
        /\ cmbName = WithMetrics(cmbIn)[1].name
        /\ cmbOut = combineAdMetrics(WithMetrics(cmbIn))

CombineNilSpecInit ==
    SyncInit /\ job = "meta" /\ TokenQuiescent /\ CacheQuiescent /\ RankQuiescent
    /\ WorkerQuiescent /\ CombineNilInit /\ PoolQuiescent /\ AuxQuiescent

CombineNilSpec == CombineNilSpecInit /\ [][Combine]_vars

\* the place of account a in the list of accounts given to the run
IndexIn(l, a) == CHOOSE i \in DOMAIN l : l[i] = a

\* C36: accounts with equal revenue are ranked in the order in which they
\* appear in the input account list, so the positions are a function of the
\* list and the revenues, whatever the order in which the goroutines finish.
C36_TiesInInputOrder ==
    \A k \in 1..Len(rhist) :
        LET r == rhist[k]
        IN  \A i, j \in DOMAIN r.result :
                (i < j /\ r.result[i].revenue = r.result[j].revenue)
                    => IndexIn(r.accounts, r.result[i].account)
                           < IndexIn(r.accounts, r.result[j].account)

\* C37: every row a run persists has previousPosition = the position of the
\* row persisted before it for the account and month (0 if there was none)
\* and, when previousPosition is not 0, positionChange = previousPosition -
\* position; also in a run whose lookup of the prior row failed.
C37_PreviousPositionIsPriorRow ==
    \A k \in 1..Len(rhist) :
        LET r == rhist[k]
        IN  r.saveOk =>
                \A i \in DOMAIN r.result :
                    LET key == <<r.result[i].account, r.result[i].month>>
                        row == r.stored[key]
                    IN  /\ row.previousPosition = r.start[key].position
                        /\ row.previousPosition # 0
                             => row.positionChange = row.previousPosition - row.position

\* a goroutine that gets to its send finds room in the channel: the items
\* in a channel and the goroutines that may still send to it are never more
\* than the channel holds
SendsNeverBlock ==
    rpc = "running" =>
        /\ Len(rankingBeforeUpdate) + Cardinality({a \in Accounts : lookup[a] = "todo"})
              <= ChannelCap(accounts)
        /\ Len(rankings) + Cardinality({a \in Accounts : fetch[a] = "todo"})
              <= ChannelCap(accounts)

\* when the channels were closed every goroutine of the run had ended
ClosedAfterSends ==
    \A k \in 1..Len(rhist) :
        \A a \in Accounts : rhist[k].lookup[a] # "todo" /\ rhist[k].fetch[a] # "todo"

\* C38: processTopRankingAccountsWithDate always terminates: no goroutine
\* blocks on a channel send, for any number of accounts and any outcomes of
\* the lookups and fetches; wg.Wait() completes; and the channels are closed
\* only after every send.
C38_RankingRunTerminates ==
    /\ [](SendsNeverBlock /\ ClosedAfterSends)
    /\ (rpc = "running") ~> (rpc = "idle")

\* a run on two accounts ended in which both lookups found a row and both
\* fetches sent an item: both channels were full
C38_Witness ==
    \E k \in 1..Len(rhist) :
        /\ Len(rhist[k].accounts) = 2
        /\ \A a \in Accounts : rhist[k].lookup[a] = "found" /\ rhist[k].fetch[a] = "sent"
        /\ Len(rhist[k].result) = 2

(***************************************************************************)
(* Meta client: the request of GetAdAccountInsightsByID and its retry      *)
(***************************************************************************)
\* the access tokens in turn: the configured one, then one per refresh
ApiTokens == <<"t0", "t1", "t2", "t3", "t4", "t5", "t6", "t7">>

\* params.Add(key, value): the value is appended to the values of the key
ParamsAdd(params, key, value) == [params EXCEPT ![key] = Append(@, value)]

\* params.Encode(): every value of every key, the keys in sorted order
Encode(params) ==
    LET pairs(k) == [i \in 1..Len(params[k]) |-> <<k, params[k][i]>>]
    IN  pairs(ParamKeys[1]) \o pairs(ParamKeys[2]) \o pairs(ParamKeys[3])

\* the values a query string carries for a key
ValuesOf(query, key) ==
    LET sel == SelectSeq(query, LAMBDA x : x[1] = key)
    IN  [i \in 1..Len(sel) |-> sel[i][2]]

ReqInit ==
    /\ reqFilter \in Days \X Days
    /\ reqParams = NoParams
    /\ reqToken = 1
    /\ reqPc = "idle"
    /\ reqSent = <<>>
    /\ reqExpired = {}

\* GetAdAccountsInsights: params := &url.Values{}, params.Add("fields", ...),
\* then s.Client.GetAdAccountInsightsByID(accountID, filters, params)
GetAdAccountsInsights ==
    /\ reqPc = "idle"
    /\ reqParams' = ParamsAdd(NoParams, "fields", "f")
    /\ reqPc' = "ensure"
    /\ UNCHANGED <<reqFilter, reqToken, reqSent, reqExpired>>
    /\ UNCHANGED <<svars, tvars, cvars, rvars, wvars, mvars, pvars, dvars, evars>>

\* GetAdAccountInsightsByID up to client.Do: an EnsureValidToken error ends
\* the call; otherwise (EnsureValidToken may have refreshed a token close to
\* its expiry) time_range and access_token are added to params and the
\* request is sent with params.Encode() as its query
GetAdAccountInsightsByID ==
    /\ reqPc = "ensure"
    /\ \/ /\ reqPc' = "failed"
          /\ UNCHANGED <<reqParams, reqSent, reqToken>>
       \/ \E tok \in {reqToken, reqToken + 1} \cap DOMAIN ApiTokens :
          LET withRange == ParamsAdd(reqParams, "time_range", reqFilter)
              withToken == ParamsAdd(withRange, "access_token", ApiTokens[tok])
          IN  /\ reqToken' = tok
              /\ reqParams' = withToken
              /\ reqSent' = Append(reqSent, [query |-> Encode(withToken),
                                             token |-> ApiTokens[tok]])
              /\ reqPc' = "sent"
    /\ UNCHANGED <<reqFilter, reqExpired>>
    /\ UNCHANGED <<svars, tvars, cvars, rvars, wvars, mvars, pvars, dvars, evars>>

\* HandleResponse: 200 and other errors end the call; on a token-expired
\* answer RefreshToken is called, and when it succeeds the function calls
\* itself again with the same accountID, filters and params
ReqHandleResponse ==
    /\ reqPc = "sent"
    /\ \/ /\ reqPc' \in {"done", "failed"}
          /\ UNCHANGED <<reqToken, reqExpired>>
       \/ /\ Len(reqSent) <= MaxRequestRetries
          /\ reqExpired' = reqExpired \cup {ApiTokens[reqToken]}
          /\ \/ /\ reqToken < Len(ApiTokens)
                /\ reqToken' = reqToken + 1
                /\ reqPc' = "ensure"
             \/ /\ reqPc' = "failed"
                /\ UNCHANGED reqToken
    /\ UNCHANGED <<reqFilter, reqParams, reqSent>>
    /\ UNCHANGED <<svars, tvars, cvars, rvars, wvars, mvars, pvars, dvars, evars>>

ReqNext ==
    \/ GetAdAccountsInsights
    \/ GetAdAccountInsightsByID
    \/ ReqHandleResponse

\* C40: the request GetAdAccountInsightsByID sends when it retries after a
\* successful token refresh carries exactly one access_token parameter, the
\* refreshed token, and exactly one time_range parameter; no token reported
\* as expired is sent again.
C40_RetryCarriesOneTokenOneRange ==
    \A i \in 2..Len(reqSent) :
        /\ ValuesOf(reqSent[i].query, "access_token") = <<reqSent[i].token>>
        /\ ValuesOf(reqSent[i].query, "time_range") = <<reqFilter>>
        /\ \A j \in 1..(i - 1) :
            \A n \in DOMAIN reqSent[i].query :
                reqSent[i].query[n][1] = "access_token"
                    => reqSent[i].query[n][2] # reqSent[j].token

ReqSpecInit ==
    SyncInit /\ job = "meta" /\ TokenQuiescent /\ CacheQuiescent /\ RankQuiescent
    /\ WorkerQuiescent /\ CombineQuiescent /\ PoolQuiescent /\ CalQuiescent
    /\ ExpQuiescent /\ ReqInit

ReqSpec == ReqSpecInit /\ [][ReqNext]_vars

CombineSpecInit ==
    SyncInit /\ job = "meta" /\ TokenQuiescent /\ CacheQuiescent /\ RankQuiescent
    /\ WorkerQuiescent /\ CombineInit /\ PoolQuiescent /\ AuxQuiescent

CombineSpec == CombineSpecInit /\ [][CombineNext]_vars

WorkerSpecInit ==
    SyncInit /\ job = "meta" /\ TokenQuiescent /\ CacheQuiescent /\ RankQuiescent
    /\ WorkerInit /\ CombineQuiescent /\ PoolQuiescent /\ AuxQuiescent

WorkerSpec == WorkerSpecInit /\ [][WorkerNext]_vars

RankSpecInit ==
    SyncInit /\ job = "ranking" /\ TokenQuiescent /\ CacheQuiescent /\ RankInit
    /\ WorkerQuiescent /\ CombineQuiescent /\ PoolQuiescent /\ AuxQuiescent

RankSpec == RankSpecInit /\ [][RankNext]_vars

\* the table before the last run of a behaviour: empty, or with the rows an
\* earlier run of the month persisted for all accounts
RowsOfEarlierRun ==
    [k \in Accounts \X RankMonths |->
        IF k[2] = <<12, 2023>>
           THEN [position |-> k[1], positionChange |-> 0, previousPosition |-> 0,
                 revenue |-> IF k[1] = 1 THEN 2500 ELSE 1000]
           ELSE NoRow]

RankLastRunInit ==
    /\ rankStore \in {[k \in Accounts \X RankMonths |-> NoRow], RowsOfEarlierRun}
    /\ rankToday \in StartDates
    /\ rankAdv = 0
    /\ runNo = MaxRuns - 1
    /\ rpc = "idle"
    /\ processingDate = rankToday
    /\ accounts = <<>>
    /\ lookup = NoLookups
    /\ fetch = NoLookups
    /\ rankingBeforeUpdate = <<>>
    /\ rankings = <<>>
    /\ lookupMonths = {}
    /\ fetchRanges = {}
    /\ fetched = NoFetched
    /\ rhist = <<>>

RankLiveSpecInit ==
    SyncInit /\ job = "ranking" /\ TokenQuiescent /\ CacheQuiescent /\ RankLastRunInit
    /\ WorkerQuiescent /\ CombineQuiescent /\ PoolQuiescent /\ AuxQuiescent

\* every goroutine that can take a step takes it, and so does the caller
\* once wg.Wait() can return
RankLiveSpec ==
    /\ RankLiveSpecInit /\ [][RankNext]_vars
    /\ WF_vars(\E a \in Accounts : GetByAccountID(a))
    /\ WF_vars(\E a \in Accounts : getSalesByAccount(a))
    /\ WF_vars(RankFinish)

Init == SyncInit /\ TokenQuiescent /\ CacheQuiescent /\ RankQuiescent /\ WorkerQuiescent
    /\ CombineQuiescent /\ PoolQuiescent /\ AuxQuiescent

Next ==
    \E t \in Threads :
        \/ CronFire(t)
        \/ ManualCall(t)
        \/ SyncLockBlocked(t)
        \/ TriggerManualSync(t)
        \/ SyncEnter(t)
        \/ SyncRecordStart(t)
        \/ SyncGetAccounts(t)
        \/ SyncProcess(t)
        \/ SyncRecordComplete(t)
        \/ SyncDeferred(t)
        \/ RankingEnter(t)
        \/ RankingGetAccounts(t)
        \/ RankingProcess(t)
        \/ RankingDeferred(t)
        \/ StatusCall(t)
        \/ GetStatus(t)

Spec == Init /\ [][Next]_vars

====
